---- MODULE Spec2Model ----
(***************************************************************************)
(* Model of the i.MX8MM OTP fuse library (src/otp) of imx-misc-tools.      *)
(*                                                                         *)
(* A uint32_t fuse word is modelled as the set of the bit positions        *)
(* (0..31) that are 1: & is \cap, | is \cup, ~ is the complement in 0..31, *)
(* << and >> move the positions and drop those that leave 0..31.  Bytes    *)
(* (uint8_t) and small field values are integers.                          *)
(***************************************************************************)
EXTENDS Integers, Sequences, FiniteSets, TLC

VARIABLES
    fuse,     \* the nvmem device: fuse word id -> current 32-bit value
    op,       \* name of the library call made last ("none" before the first)
    arg,      \* its argument (desired hash, address, window, [id, val], ...)
    fault,    \* the I/O fault the environment injected into that call
    pre,      \* the device contents when the call started
    io,       \* the device accesses (read/write syscalls) the call issued
    ret,      \* its return value
    err,      \* errno after the call ("" when the call did not set it)
    out,      \* its output buffer (words or bytes read), <<>> when none
    pc,       \* the caller: "idle", or "returned" while it holds a call's result
    ctx,      \* the caller's handle variables (otpctx_t): 0 is NULL, else an address
    heap,     \* the struct otpctx_s objects: address -> [live, fd]
    fds       \* the process's descriptor table: the descriptors that are open

vars == <<fuse, op, arg, fault, pre, io, ret, err, out, pc, ctx, heap, fds>>

(***************************************************************************)
(* Bounds of the model.                                                    *)
(***************************************************************************)
\* SRK word values used are SrkWord(0) .. SrkWord(MaxSrkVal)
MaxSrkVal == 2
\* MAC address bytes used are MacByte(0) .. MacByte(MaxMacVal)
MaxMacVal == 2
\* single-word calls use the fuse word ids 0 .. MaxWordId (and one invalid id)
MaxWordId == 1
\* and the word values WordVal(0) .. WordVal(MaxWordVal)
MaxWordVal == 2
\* boot-configuration words on the device are BootWord(0) .. BootWord(MaxBootVal)
MaxBootVal == 1
\* in-memory windows fill their non-field bits with CfgFill(0) .. CfgFill(MaxCfgFill)
MaxCfgFill == 1
\* lock words are LockPattern(0) .. LockPattern(MaxLockVal) and their complements
MaxLockVal == 2
\* the caller has the handle variables 1 .. MaxHandles
MaxHandles == 2
\* the process can hold MaxFds descriptors beyond stdin, stdout and stderr
MaxFds == 3
\* fuse files are up to MaxFileSkew bytes shorter or longer than the hash
MaxFileSkew == 1
\* and hold the byte patterns FileBytes(0, n) .. FileBytes(MaxFileVal, n)
MaxFileVal == 2

(***************************************************************************)
(* uint32_t as a set of bit positions.                                     *)
(***************************************************************************)
WordBits == 32
Bits == 0 .. (WordBits - 1)

RECURSIVE Pow2(_)
Pow2(n) == IF n = 0 THEN 1 ELSE 2 * Pow2(n - 1)

\* the low `width` bits of the number n, as a word
ToWord(n, width) == {i \in 0 .. (width - 1) : (n \div Pow2(i)) % 2 = 1}

RECURSIVE ToNum(_)
\* the number a word holds (used only on fields narrower than 31 bits)
ToNum(w) == IF w = {} THEN 0
            ELSE LET i == CHOOSE x \in w : TRUE IN Pow2(i) + ToNum(w \ {i})

Shl(w, k) == {i + k : i \in w} \cap Bits
Shr(w, k) == {i - k : i \in {x \in w : x >= k}}
Not(w) == Bits \ w
ZeroWord == {}

(***************************************************************************)
(* otp.h: fuse word identifiers (enum otp_fuseword_id_t, in X-macro order) *)
(***************************************************************************)
OCOTP_LOCK == 0
OCOTP_BOOT_CFG0 == 6
OCOTP_SRK0 == 11
OCOTP_MAC_ADDR0 == 23
OCOTP_MAC_ADDR1 == 24
OTP___FUSEWORD_COUNT == 31
FuseIds == 0 .. (OTP___FUSEWORD_COUNT - 1)

SRK_FUSE_COUNT == 8
\* srk_fuse[]: index -> fuse word id (OCOTP_SRK0 .. OCOTP_SRK7 are consecutive)
srk_fuse == [i \in 0 .. (SRK_FUSE_COUNT - 1) |-> OCOTP_SRK0 + i]

(***************************************************************************)
(* The environment's I/O fault: the at-th device access of a call fails    *)
(* (at = 0: none).  kind "seek": lseek fails, no transfer is issued;       *)
(* "xfer": the read/write syscall is issued and fails without effect;      *)
(* "late": a write syscall is issued, stores the word and still reports    *)
(* failure (for a read the same as "xfer").                                *)
(***************************************************************************)
NoFault == [at |-> 0, kind |-> "none"]
FaultKinds == {"seek", "xfer", "late"}

\* a call in progress: device contents, accesses issued, accesses counted
Dev(f) == [fuse |-> f, io |-> <<>>, n |-> 0]

IoRec(o, id, val, cur, ok) == [op |-> o, id |-> id, val |-> val, cur |-> cur, ok |-> ok]

\* otp___fuseword_read: val is meaningful only when rc = 0
otp___fuseword_read(d, id, flt) ==
    IF id >= OTP___FUSEWORD_COUNT
    THEN [d |-> d, rc |-> -1, errno |-> "EINVAL", val |-> ZeroWord]
    ELSE LET k == d.n + 1
             cur == d.fuse[id]
         IN IF flt.at = k /\ flt.kind = "seek"
            THEN [d |-> [d EXCEPT !.n = k], rc |-> -1, errno |-> "EIO", val |-> ZeroWord]
            ELSE IF flt.at = k
            THEN [d |-> [d EXCEPT !.n = k,
                                  !.io = Append(@, IoRec("read", id, ZeroWord, cur, FALSE))],
                  rc |-> -1, errno |-> "EIO", val |-> ZeroWord]
            ELSE [d |-> [d EXCEPT !.n = k,
                                  !.io = Append(@, IoRec("read", id, cur, cur, TRUE))],
                  rc |-> 0, errno |-> "", val |-> cur]

\* otp___fuseword_write: the unconditional write of one word
otp___fuseword_write(d, id, newval, flt) ==
    IF id >= OTP___FUSEWORD_COUNT
    THEN [d |-> d, rc |-> -1, errno |-> "EINVAL"]
    ELSE LET k == d.n + 1
             cur == d.fuse[id]
         IN IF flt.at = k /\ flt.kind = "seek"
            THEN [d |-> [d EXCEPT !.n = k], rc |-> -1, errno |-> "EIO"]
            ELSE IF flt.at = k /\ flt.kind = "xfer"
            THEN [d |-> [d EXCEPT !.n = k,
                                  !.io = Append(@, IoRec("write", id, newval, cur, FALSE))],
                  rc |-> -1, errno |-> "EIO"]
            ELSE IF flt.at = k
            THEN [d |-> [d EXCEPT !.n = k, !.fuse[id] = newval,
                                  !.io = Append(@, IoRec("write", id, newval, cur, FALSE))],
                  rc |-> -1, errno |-> "EIO"]
            ELSE [d |-> [d EXCEPT !.n = k, !.fuse[id] = newval,
                                  !.io = Append(@, IoRec("write", id, newval, cur, TRUE))],
                  rc |-> 0, errno |-> ""]

\* mutant: the update writes without comparing
otp___fuseword_update_always(d, id, newval, flt) ==
    IF id >= OTP___FUSEWORD_COUNT
    THEN [d |-> d, rc |-> -1, errno |-> "EINVAL"]
    ELSE LET rd == otp___fuseword_read(d, id, flt)
         IN IF rd.rc < 0
            THEN [d |-> rd.d, rc |-> -1, errno |-> rd.errno]
            ELSE otp___fuseword_write(rd.d, id, newval, flt)

\* otp___fuseword_update: read the word, write it only when it differs
otp___fuseword_update(d, id, newval, flt) ==
    IF id >= OTP___FUSEWORD_COUNT
    THEN [d |-> d, rc |-> -1, errno |-> "EINVAL"]
    ELSE LET rd == otp___fuseword_read(d, id, flt)
         IN IF rd.rc < 0
            THEN [d |-> rd.d, rc |-> -1, errno |-> rd.errno]
            ELSE IF rd.val = newval
            THEN [d |-> rd.d, rc |-> 0, errno |-> ""]
            ELSE otp___fuseword_write(rd.d, id, newval, flt)

\* otp_locks_update (otp_lock.c): the update of the lock word
otp_locks_update(d, lockword, flt) == otp___fuseword_update(d, OCOTP_LOCK, lockword, flt)

(***************************************************************************)
(* otp_bootcfg.c: device access                                            *)
(***************************************************************************)
OTP_BOOTCFG_WORD_COUNT == 5
\* bootcfg_fuses[]: index -> fuse word id (OCOTP_BOOT_CFG0 .. 4 are consecutive)
bootcfg_fuses == [i \in 0 .. (OTP_BOOTCFG_WORD_COUNT - 1) |-> OCOTP_BOOT_CFG0 + i]

RECURSIVE bootcfg_read_loop(_, _, _, _, _)
\* the for loop shared by otp_bootcfg_read and otp_bootcfg_update
bootcfg_read_loop(d, count, sizeinwords, words, flt) ==
    IF count >= sizeinwords
    THEN [d |-> d, ret |-> count, errno |-> "", words |-> words]
    ELSE LET r == otp___fuseword_read(d, bootcfg_fuses[count], flt)
         IN IF r.rc < 0
            THEN [d |-> r.d, ret |-> -1, errno |-> r.errno, words |-> words]
            ELSE bootcfg_read_loop(r.d, count + 1, sizeinwords, Append(words, r.val), flt)

otp_bootcfg_read(d, sizeinwords, flt) ==
    bootcfg_read_loop(d, 0,
                      IF sizeinwords > OTP_BOOTCFG_WORD_COUNT
                      THEN OTP_BOOTCFG_WORD_COUNT ELSE sizeinwords,
                      <<>>, flt)

RECURSIVE bootcfg_write_loop_all(_, _, _, _, _)
\* mutant: the write loop does not skip the words that already match
bootcfg_write_loop_all(d, count, curvals, newvals, flt) ==
    IF count >= OTP_BOOTCFG_WORD_COUNT
    THEN [d |-> d, ret |-> 0, errno |-> ""]
    ELSE LET r == otp___fuseword_write(d, bootcfg_fuses[count], newvals[count + 1], flt)
         IN IF r.rc < 0
            THEN [d |-> r.d, ret |-> -1, errno |-> r.errno]
            ELSE bootcfg_write_loop_all(r.d, count + 1, curvals, newvals, flt)

RECURSIVE bootcfg_write_loop(_, _, _, _, _)
\* the second for loop of otp_bootcfg_update
bootcfg_write_loop(d, count, curvals, newvals, flt) ==
    IF count >= OTP_BOOTCFG_WORD_COUNT
    THEN [d |-> d, ret |-> 0, errno |-> ""]
    ELSE IF curvals[count + 1] = newvals[count + 1]
    THEN bootcfg_write_loop(d, count + 1, curvals, newvals, flt)
    ELSE LET r == otp___fuseword_write(d, bootcfg_fuses[count], newvals[count + 1], flt)
         IN IF r.rc < 0
            THEN [d |-> r.d, ret |-> -1, errno |-> r.errno]
            ELSE bootcfg_write_loop(r.d, count + 1, curvals, newvals, flt)

otp_bootcfg_update(d, newvals, sizeinwords, flt) ==
    IF sizeinwords # OTP_BOOTCFG_WORD_COUNT
    THEN [d |-> d, ret |-> -1, errno |-> "EINVAL"]
    ELSE LET rd == bootcfg_read_loop(d, 0, OTP_BOOTCFG_WORD_COUNT, <<>>, flt)
         IN IF rd.ret < 0
            THEN [d |-> rd.d, ret |-> -1, errno |-> rd.errno]
            ELSE bootcfg_write_loop(rd.d, 0, rd.words, newvals, flt)

(***************************************************************************)
(* otp_bootcfg.c: the in-memory window codec                               *)
(***************************************************************************)
\* otp_boot_cfg_id_t, in X-macro order
OTP_BOOT_CFG_DIR_BT_DIS == 0
OTP_BOOT_CFG_BT_FUSE_SEL == 1
OTP_BOOT_CFG_SJC_DISABLE == 2
OTP_BOOT_CFG_SEC_CONFIG == 3
OTP_BOOT_CFG_WDOG_ENABLE == 4
OTP_BOOT_CFG_TZASC_ENABLE == 5
OTP_BOOT_CFG_WDOG_TIMEOUT == 6
OTP_BOOT_CFG_COUNT == 7

\* bootcfg_fuseword_index[]: the BOOT_CFG0 fields, then the BOOT_CFG1 fields
bootcfg_fuseword_index ==
    [id \in 0 .. (OTP_BOOT_CFG_COUNT - 1) |->
        IF id \in {OTP_BOOT_CFG_DIR_BT_DIS, OTP_BOOT_CFG_BT_FUSE_SEL,
                   OTP_BOOT_CFG_SJC_DISABLE, OTP_BOOT_CFG_SEC_CONFIG}
        THEN 0 ELSE 1]

\* bootcfg_offset[]
bootcfg_offset ==
    (OTP_BOOT_CFG_SJC_DISABLE :> 21) @@ (OTP_BOOT_CFG_SEC_CONFIG :> 25)
    @@ (OTP_BOOT_CFG_DIR_BT_DIS :> 27) @@ (OTP_BOOT_CFG_BT_FUSE_SEL :> 28)
    @@ (OTP_BOOT_CFG_WDOG_ENABLE :> 10) @@ (OTP_BOOT_CFG_TZASC_ENABLE :> 11)
    @@ (OTP_BOOT_CFG_WDOG_TIMEOUT :> 16)

\* 1U << n
Bit(n) == Shl({0}, n)

\* otp_bootcfg_bool_get: *value is written only on success
otp_bootcfg_bool_get(fusewords, sizeinwords, id) ==
    IF sizeinwords < 2 \/ id >= OTP_BOOT_CFG_COUNT
    THEN [ret |-> -1, errno |-> "EINVAL", value |-> <<>>]
    ELSE [ret |-> 0, errno |-> "",
          value |-> <<(fusewords[bootcfg_fuseword_index[id] + 1]
                          \cap Bit(bootcfg_offset[id])) # ZeroWord>>]

\* mutant: a false value leaves the bit as it is
otp_bootcfg_bool_set_only(fusewords, sizeinwords, id, value) ==
    IF sizeinwords < 2 \/ id >= OTP_BOOT_CFG_COUNT
    THEN [ret |-> -1, errno |-> "EINVAL", fusewords |-> fusewords]
    ELSE LET k == bootcfg_fuseword_index[id] + 1
         IN [ret |-> 0, errno |-> "",
             fusewords |-> IF value
                           THEN [fusewords EXCEPT ![k] = @ \cup Bit(bootcfg_offset[id])]
                           ELSE fusewords]

\* otp_bootcfg_bool_set
otp_bootcfg_bool_set(fusewords, sizeinwords, id, value) ==
    IF sizeinwords < 2 \/ id >= OTP_BOOT_CFG_COUNT
    THEN [ret |-> -1, errno |-> "EINVAL", fusewords |-> fusewords]
    ELSE LET k == bootcfg_fuseword_index[id] + 1
         IN [ret |-> 0, errno |-> "",
             fusewords |-> IF value
                           THEN [fusewords EXCEPT ![k] = @ \cup Bit(bootcfg_offset[id])]
                           ELSE [fusewords EXCEPT
                                    ![k] = @ \cap Not(Bit(bootcfg_offset[id]))]]

\* timeouts[]: 2-bit code -> seconds; the array has a fifth entry (4 s);
\* C index i is element i + 1
timeouts == <<64, 32, 16, 8, 4>>
\* sizeof(timeouts): the size of the array in bytes (unsigned int is 4 bytes),
\* which both watchdog routines use as their bound on the index
SizeofTimeouts == Len(timeouts) * 4
\* a read beyond the end of timeouts[] is undefined behaviour: it yields
\* whatever the image holds there (the environment's choice oob, one value
\* for every such index), or it traps, which oob = OobTrap stands for
OobTrap == -1
timeouts_at(tmo, oob) == IF tmo < Len(timeouts) THEN timeouts[tmo + 1] ELSE oob

\* 3U << bootcfg_offset[id]
Mask2(id) == Shl({0, 1}, bootcfg_offset[id])

\* otp_bootcfg_wdog_get: the enable flag through bool_get, the timeout as
\* timeouts[tmo] where tmo is the word masked with 3U << offset of
\* WDOG_ENABLE and not shifted down; the tmo >= sizeof(timeouts) branch
\* stores 0 and the next statement overwrites it.  errno "SIGSEGV" stands
\* for the read that trapped: the call does not return.
otp_bootcfg_wdog_get(fusewords, sizeinwords, oob) ==
    LET en == otp_bootcfg_bool_get(fusewords, sizeinwords, OTP_BOOT_CFG_WDOG_ENABLE)
    IN IF en.ret < 0
       THEN [ret |-> -1, errno |-> en.errno, value |-> <<>>]
       ELSE LET tmo == ToNum(fusewords[bootcfg_fuseword_index[OTP_BOOT_CFG_WDOG_ENABLE] + 1]
                                \cap Mask2(OTP_BOOT_CFG_WDOG_ENABLE))
                secs == timeouts_at(tmo, oob)
            IN IF secs = OobTrap
               THEN [ret |-> -1, errno |-> "SIGSEGV", value |-> <<>>]
               ELSE [ret |-> 0, errno |-> "", value |-> <<en.value[1], secs>>]

RECURSIVE wdog_find(_, _, _)
\* the for loop of otp_bootcfg_wdog_set, from index tmo: the index of the
\* first entry equal to the timeout, SizeofTimeouts when the loop ran out,
\* OobTrap when a read trapped
wdog_find(tmo, timeout_in_seconds, oob) ==
    IF tmo >= SizeofTimeouts THEN tmo
    ELSE IF timeouts_at(tmo, oob) = OobTrap THEN OobTrap
    ELSE IF timeouts_at(tmo, oob) = timeout_in_seconds THEN tmo
    ELSE wdog_find(tmo + 1, timeout_in_seconds, oob)

\* otp_bootcfg_wdog_set: the enable flag through bool_set, then for a
\* non-zero timeout the two bits at the offset of WDOG_ENABLE are cleared
\* and tmo << that offset is or-ed in
otp_bootcfg_wdog_set(fusewords, sizeinwords, enabled, timeout_in_seconds, oob) ==
    LET tmo == IF timeout_in_seconds # 0 THEN wdog_find(0, timeout_in_seconds, oob) ELSE 0
    IN IF tmo = OobTrap
       THEN [ret |-> -1, errno |-> "SIGSEGV", fusewords |-> fusewords]
       ELSE IF timeout_in_seconds # 0 /\ tmo >= SizeofTimeouts
       THEN [ret |-> -1, errno |-> "EINVAL", fusewords |-> fusewords]
       ELSE LET en == otp_bootcfg_bool_set(fusewords, sizeinwords,
                                           OTP_BOOT_CFG_WDOG_ENABLE, enabled)
                k == bootcfg_fuseword_index[OTP_BOOT_CFG_WDOG_ENABLE] + 1
            IN IF en.ret < 0 \/ timeout_in_seconds = 0
               THEN en
               ELSE [ret |-> 0, errno |-> "",
                     fusewords |->
                        [en.fusewords EXCEPT
                            ![k] = (@ \cap Not(Mask2(OTP_BOOT_CFG_WDOG_ENABLE)))
                                   \cup Shl(ToWord(tmo, 5),
                                            bootcfg_offset[OTP_BOOT_CFG_WDOG_ENABLE])]]

(***************************************************************************)
(* otp_srk.c                                                               *)
(***************************************************************************)
RECURSIVE srk_read_loop(_, _, _, _, _)
\* the for loop of otp_srk_read, from index count
srk_read_loop(d, count, desired, hash, flt) ==
    IF count >= desired
    THEN [d |-> d, ret |-> count, errno |-> "", hash |-> hash]
    ELSE LET r == otp___fuseword_read(d, srk_fuse[count], flt)
         IN IF r.rc < 0
            THEN [d |-> r.d, ret |-> -1, errno |-> r.errno, hash |-> hash]
            ELSE srk_read_loop(r.d, count + 1, desired, Append(hash, r.val), flt)

otp_srk_read(d, sizeinwords, flt) ==
    LET desired == IF sizeinwords > SRK_FUSE_COUNT THEN SRK_FUSE_COUNT ELSE sizeinwords
    IN srk_read_loop(d, 0, desired, <<>>, flt)

RECURSIVE srk_write_loop_all(_, _, _, _, _)
\* mutant: the write loop does not skip the words that already match
srk_write_loop_all(d, i, curvals, newvals, flt) ==
    IF i >= SRK_FUSE_COUNT
    THEN [d |-> d, ret |-> SRK_FUSE_COUNT, errno |-> ""]
    ELSE LET r == otp___fuseword_write(d, srk_fuse[i], newvals[i + 1], flt)
         IN IF r.rc < 0
            THEN [d |-> r.d, ret |-> -1, errno |-> r.errno]
            ELSE srk_write_loop_all(r.d, i + 1, curvals, newvals, flt)

RECURSIVE srk_write_loop(_, _, _, _, _)
\* the second for loop of otp_srk_write, from index i; curvals/newvals are
\* sequences, C index i is element i + 1
srk_write_loop(d, i, curvals, newvals, flt) ==
    IF i >= SRK_FUSE_COUNT
    THEN [d |-> d, ret |-> SRK_FUSE_COUNT, errno |-> ""]
    ELSE IF curvals[i + 1] = newvals[i + 1]
    THEN srk_write_loop(d, i + 1, curvals, newvals, flt)
    ELSE LET r == otp___fuseword_write(d, srk_fuse[i], newvals[i + 1], flt)
         IN IF r.rc < 0
            THEN [d |-> r.d, ret |-> -1, errno |-> r.errno]
            ELSE srk_write_loop(r.d, i + 1, curvals, newvals, flt)

\* mutant: the validation insists on blank fuses
srk_conflict_nonzero(curvals, newvals) ==
    \E i \in 0 .. (SRK_FUSE_COUNT - 1) : curvals[i + 1] # ZeroWord

\* mutant: the validation loop starts one index late
srk_conflict_late(curvals, newvals) ==
    \E i \in 1 .. (SRK_FUSE_COUNT - 1) :
        curvals[i + 1] # ZeroWord /\ curvals[i + 1] # newvals[i + 1]

\* the check of the first for loop of otp_srk_write
srk_conflict(curvals, newvals) ==
    \E i \in 0 .. (SRK_FUSE_COUNT - 1) :
        curvals[i + 1] # ZeroWord /\ curvals[i + 1] # newvals[i + 1]

\* mutant: the validation loop is left out
otp_srk_write_unchecked(d, newvals, sizeinwords, flt) ==
    IF sizeinwords # SRK_FUSE_COUNT
    THEN [d |-> d, ret |-> -1, errno |-> "EINVAL"]
    ELSE LET rd == otp_srk_read(d, SRK_FUSE_COUNT, flt)
         IN IF rd.ret # SRK_FUSE_COUNT
            THEN [d |-> rd.d, ret |-> -1, errno |-> rd.errno]
            ELSE srk_write_loop(rd.d, 0, rd.hash, newvals, flt)

otp_srk_write(d, newvals, sizeinwords, flt) ==
    IF sizeinwords # SRK_FUSE_COUNT
    THEN [d |-> d, ret |-> -1, errno |-> "EINVAL"]
    ELSE LET rd == otp_srk_read(d, SRK_FUSE_COUNT, flt)
         IN IF rd.ret # SRK_FUSE_COUNT
            THEN [d |-> rd.d, ret |-> -1, errno |-> rd.errno]
            ELSE IF srk_conflict(rd.hash, newvals)
            THEN [d |-> rd.d, ret |-> -1, errno |-> "EINVAL"]
            ELSE srk_write_loop(rd.d, 0, rd.hash, newvals, flt)


(***************************************************************************)
(* otp_macaddr.c                                                           *)
(***************************************************************************)
\* x & 0xFF, as a uint8_t
LowByte(w) == ToNum(w \cap (0 .. 7))
\* a uint8_t promoted to int, as a word
ByteWord(b) == ToWord(b, 8)

\* the unpacking of otp_macaddr_read: element i + 1 is macaddr[i]
mac_unpack(mac0, mac1) ==
    << LowByte(Shr(mac1, 8)), LowByte(mac1),
       LowByte(Shr(mac0, 24)), LowByte(Shr(mac0, 16)),
       LowByte(Shr(mac0, 8)), LowByte(mac0) >>

otp_macaddr_read(d, flt) ==
    LET r0 == otp___fuseword_read(d, OCOTP_MAC_ADDR0, flt)
    IN IF r0.rc < 0
       THEN [d |-> r0.d, ret |-> -1, errno |-> r0.errno, macaddr |-> <<>>]
       ELSE LET r1 == otp___fuseword_read(r0.d, OCOTP_MAC_ADDR1, flt)
            IN IF r1.rc < 0
               THEN [d |-> r1.d, ret |-> -1, errno |-> r1.errno, macaddr |-> <<>>]
               ELSE [d |-> r1.d, ret |-> 0, errno |-> "",
                     macaddr |-> mac_unpack(r0.val, r1.val)]

\* mutant: bytes 0 and 1 packed in the other order
mac_pack1_swapped(newaddr) == Shl(ByteWord(newaddr[2]), 8) \cup ByteWord(newaddr[1])

\* mac1 = (newaddr[0] << 8) | newaddr[1]
mac_pack1(newaddr) == Shl(ByteWord(newaddr[1]), 8) \cup ByteWord(newaddr[2])

\* mac0 = (newaddr[2] << 24) | (newaddr[3] << 16) | (newaddr[4] << 8) | newaddr[5];
\* the int shifted into bit 31 keeps its bit pattern when converted to uint32_t
mac_pack0(newaddr) ==
    Shl(ByteWord(newaddr[3]), 24) \cup Shl(ByteWord(newaddr[4]), 16)
        \cup Shl(ByteWord(newaddr[5]), 8) \cup ByteWord(newaddr[6])

MacZeros == <<0, 0, 0, 0, 0, 0>>

otp_macaddr_write(d, newaddr, flt) ==
    LET rd == otp_macaddr_read(d, flt)
    IN IF rd.ret < 0
       THEN [d |-> rd.d, ret |-> -1, errno |-> rd.errno]
       ELSE IF rd.macaddr # MacZeros
       THEN [d |-> rd.d, ret |-> -1, errno |-> "EALREADY"]
       ELSE IF rd.macaddr = newaddr
       THEN [d |-> rd.d, ret |-> 0, errno |-> ""]
       ELSE LET w0 == otp___fuseword_write(rd.d, OCOTP_MAC_ADDR0, mac_pack0(newaddr), flt)
            IN IF w0.rc # 0
               THEN [d |-> w0.d, ret |-> w0.rc, errno |-> w0.errno]
               ELSE LET w1 == otp___fuseword_write(w0.d, OCOTP_MAC_ADDR1,
                                                   mac_pack1(newaddr), flt)
                    IN [d |-> w1.d, ret |-> w1.rc, errno |-> w1.errno]

(***************************************************************************)
(* Inputs of the SRK calls.                                                *)
(***************************************************************************)
\* the k-th word value: k copies of bit pattern 0x11111111 added up
SrkWord(k) == ToWord(k, 4) \cup Shl(ToWord(k, 4), 8) \cup Shl(ToWord(k, 4), 28)

\* desired hashes [a, b, b, b, b, b, b, b], as in the [A,0,..,0] / [A,B,..,H]
\* cases of the specification
SrkHashes ==
    {[i \in 1 .. SRK_FUSE_COUNT |-> IF i = 1 THEN SrkWord(a) ELSE SrkWord(b)] :
        a \in 0 .. MaxSrkVal, b \in 0 .. MaxSrkVal}

\* otp_srk_write reads 8 words, then writes up to 8
SrkReadFaults == [at : 1 .. SRK_FUSE_COUNT, kind : {"xfer"}]
SrkWriteFaults == [at : (SRK_FUSE_COUNT + 1) .. (2 * SRK_FUSE_COUNT), kind : FaultKinds]
SrkFaults == {NoFault} \cup SrkReadFaults \cup SrkWriteFaults

BlankFuses == [id \in FuseIds |-> ZeroWord]

\* the caller holds no call result
NoCall ==
    /\ op = "none"
    /\ arg = <<>>
    /\ fault = NoFault
    /\ pre = BlankFuses
    /\ io = <<>>
    /\ ret = 0
    /\ err = ""
    /\ out = <<>>
    /\ pc = "idle"

\* no context has been opened: every handle NULL, nothing allocated.  The
\* handle variables act in SpecCtx and SpecMain; the specifications of the
\* fuse calls pass the device (Dev) as the open context of the call.
Handles == 1 .. MaxHandles
HeapAddrs == 1 .. MaxFds
NoContext ==
    /\ ctx = [h \in Handles |-> 0]
    /\ heap = [a \in HeapAddrs |-> [live |-> FALSE, fd |-> 0]]
    /\ fds = {}

Init ==
    /\ fuse = BlankFuses
    /\ NoCall
    /\ NoContext

\* the caller is done with the result of its last call
Return ==
    /\ pc = "returned"
    /\ op' = "none"
    /\ arg' = <<>>
    /\ fault' = NoFault
    /\ pre' = BlankFuses
    /\ io' = <<>>
    /\ ret' = 0
    /\ err' = ""
    /\ out' = <<>>
    /\ pc' = "idle"
    /\ UNCHANGED <<fuse, ctx, heap, fds>>

\* the state after a library call o(a) under fault flt that produced r
Called(o, a, flt, r, result) ==
    /\ fuse' = r.d.fuse
    /\ op' = o
    /\ arg' = a
    /\ fault' = flt
    /\ pre' = fuse
    /\ io' = r.d.io
    /\ ret' = r.ret
    /\ err' = r.errno
    /\ out' = result
    /\ pc' = "returned"
    /\ UNCHANGED <<ctx, heap, fds>>

\* a caller runs otp_srk_write(ctx, newvals, SRK_FUSE_COUNT)
SrkWrite ==
    /\ pc = "idle"
    /\ \E newvals \in SrkHashes, flt \in SrkFaults :
          Called("srk_write", newvals, flt,
                 otp_srk_write(Dev(fuse), newvals, SRK_FUSE_COUNT, flt), <<>>)

\* after a failed otp_srk_write the caller re-runs it with the same hash;
\* the environment injects no fault into the re-run
SrkWriteRetry ==
    /\ pc = "returned"
    /\ op = "srk_write"
    /\ ret < 0
    /\ Called("srk_write_retry", arg, NoFault,
              otp_srk_write(Dev(fuse), arg, SRK_FUSE_COUNT, NoFault), <<>>)

\* a caller runs otp_srk_read(ctx, srk_hash, SRK_FUSE_COUNT)
SrkRead ==
    /\ pc = "idle"
    /\ \E flt \in {NoFault} \cup SrkReadFaults :
          LET r == otp_srk_read(Dev(fuse), SRK_FUSE_COUNT, flt)
          IN Called("srk_read", <<>>, flt, r, r.hash)

NextSrk == SrkWrite \/ SrkWriteRetry \/ SrkRead \/ Return

SpecSrk == Init /\ [][NextSrk]_vars

(***************************************************************************)
(* Properties of the SRK hash store.                                       *)
(***************************************************************************)
SrkIdx == 0 .. (SRK_FUSE_COUNT - 1)
\* the 8 SRK words of a device image, as a hash
SrkOf(f) == [i \in 1 .. SRK_FUSE_COUNT |-> f[srk_fuse[i - 1]]]
WritesOf(s) == SelectSeq(s, LAMBDA r : r.op = "write")
ReadsOf(s) == SelectSeq(s, LAMBDA r : r.op = "read")
IsSrkWrite == pc = "returned" /\ op \in {"srk_write", "srk_write_retry"}
\* index i holds a non-zero word that differs from the desired one
ConflictAt(f, desired, i) ==
    f[srk_fuse[i]] # ZeroWord /\ f[srk_fuse[i]] # desired[i + 1]
\* the reads of the call were not disturbed
ReadsClean == fault.at = 0 \/ fault.at > SRK_FUSE_COUNT

\* C1: an otp_srk_write that meets a non-zero word differing from the
\* desired one fails (errno EINVAL, the code's write-conflict error, when its
\* reads went through), issues no device write and leaves every fuse word,
\* as a following otp_srk_read returns them, as it was.
C1_SrkConflictAllOrNothing ==
    (IsSrkWrite /\ \E i \in SrkIdx : ConflictAt(pre, arg, i)) =>
        /\ ret = -1
        /\ ReadsClean => err = "EINVAL"
        /\ WritesOf(io) = <<>>
        /\ fuse = pre
        /\ otp_srk_read(Dev(fuse), SRK_FUSE_COUNT, NoFault).hash = SrkOf(pre)

\* C1 witness: a conflict at index 3 while the indices after it are zero and
\* the desired words there are not (they could have been written)
C1_Witness ==
    /\ IsSrkWrite
    /\ fault = NoFault
    /\ ConflictAt(pre, arg, 3)
    /\ \A i \in 4 .. (SRK_FUSE_COUNT - 1) :
          pre[srk_fuse[i]] = ZeroWord /\ arg[i + 1] # ZeroWord
    /\ ret = -1

\* C2: in every step, whatever the call and whatever the I/O fault, an SRK
\* word that is non-zero keeps its value.
C2_SrkMonotonic ==
    [][\A i \in SrkIdx :
          fuse[srk_fuse[i]] # ZeroWord => fuse'[srk_fuse[i]] = fuse[srk_fuse[i]]]_vars

\* C2 witness: a write onto partly programmed fuses that an I/O failure
\* aborted after it had stored a word
C2_Witness ==
    /\ IsSrkWrite
    /\ \E i \in SrkIdx : pre[srk_fuse[i]] # ZeroWord
    /\ ret = -1 /\ err = "EIO"
    /\ fuse # pre

\* C3: when every current word is zero or equals the desired word and no I/O
\* fails, otp_srk_write succeeds, writes exactly the indices whose word
\* differs (each zero before, each once, in index order), and a following
\* read returns the desired hash.
C3_SrkMerge ==
    (IsSrkWrite /\ fault = NoFault /\ \A i \in SrkIdx : ~ConflictAt(pre, arg, i)) =>
        /\ ret = SRK_FUSE_COUNT
        /\ LET W == WritesOf(io)
               D == {i \in SrkIdx : pre[srk_fuse[i]] # arg[i + 1]}
           IN /\ Len(W) = Cardinality(D)
              /\ {W[k].id : k \in 1 .. Len(W)} = {srk_fuse[i] : i \in D}
              /\ \A k \in 1 .. Len(W) :
                    /\ W[k].cur = ZeroWord
                    /\ W[k].val = arg[W[k].id - OCOTP_SRK0 + 1]
                    /\ W[k].ok
              /\ \A k \in 1 .. (Len(W) - 1) : W[k].id < W[k + 1].id
        /\ otp_srk_read(Dev(fuse), SRK_FUSE_COUNT, NoFault).hash = arg
        /\ \A id \in FuseIds : id \notin {srk_fuse[i] : i \in SrkIdx} => fuse[id] = pre[id]

\* C3 witness: current = [A,0,..,0], desired = [A,B,..,B] with B # A
C3_Witness ==
    /\ IsSrkWrite /\ fault = NoFault
    /\ pre[srk_fuse[0]] # ZeroWord /\ pre[srk_fuse[0]] = arg[1]
    /\ \A i \in 1 .. (SRK_FUSE_COUNT - 1) :
          pre[srk_fuse[i]] = ZeroWord /\ arg[i + 1] # ZeroWord /\ arg[i + 1] # arg[1]
    /\ ret = SRK_FUSE_COUNT
    /\ Len(WritesOf(io)) = SRK_FUSE_COUNT - 1
(***************************************************************************)
(* The MAC address store.                                                  *)
(***************************************************************************)
MacByte(k) == (k * 127) % 256

\* addresses with one non-zero byte, and addresses of six different bytes
MacAddrs ==
    {[i \in 1 .. 6 |-> IF i = p THEN MacByte(k) ELSE 0] : p \in 1 .. 6, k \in 0 .. MaxMacVal}
    \cup {[i \in 1 .. 6 |-> MacByte(k + i)] : k \in 1 .. MaxMacVal}

\* otp_macaddr_write reads 2 words, then writes up to 2
MacReadFaults == [at : 1 .. 2, kind : {"xfer"}]
MacWriteFaults == [at : 3 .. 4, kind : FaultKinds]

\* a caller runs otp_macaddr_write(ctx, newaddr)
MacWrite ==
    /\ pc = "idle"
    /\ \E newaddr \in MacAddrs, flt \in {NoFault} \cup MacReadFaults \cup MacWriteFaults :
          Called("mac_write", newaddr, flt, otp_macaddr_write(Dev(fuse), newaddr, flt), <<>>)

\* a caller runs otp_macaddr_read(ctx, macaddr)
MacRead ==
    /\ pc = "idle"
    /\ \E flt \in {NoFault} \cup MacReadFaults :
          LET r == otp_macaddr_read(Dev(fuse), flt)
          IN Called("mac_read", <<>>, flt, r, r.macaddr)

NextMac == MacWrite \/ MacRead \/ Return

SpecMac == Init /\ [][NextMac]_vars

\* the address a fault-free otp_macaddr_read returns for a device image
MacOf(f) == otp_macaddr_read(Dev(f), NoFault).macaddr
IsMacWrite == pc = "returned" /\ op = "mac_write"
MacReadsClean == fault.at = 0 \/ fault.at > 2

\* C5 (as claimed): (a) current all-zero: the two words are packed and
\* written; (b) current equal to the desired address, zero or not: success
\* and no device write; (c) otherwise: failure with EALREADY and no device
\* write, the address read afterwards being the one programmed before.
C5_MacWritePolicy ==
    (IsMacWrite /\ fault = NoFault) =>
        /\ (MacOf(pre) = MacZeros /\ arg # MacZeros) =>
              /\ ret = 0
              /\ Len(WritesOf(io)) = 2
        /\ MacOf(pre) = arg =>
              /\ ret = 0
              /\ WritesOf(io) = <<>>
        /\ (MacOf(pre) # MacZeros /\ MacOf(pre) # arg) =>
              /\ ret = -1 /\ err = "EALREADY"
              /\ WritesOf(io) = <<>>
              /\ MacOf(fuse) = MacOf(pre)

\* C6: a successful write of address a onto all-zero MAC fuses leaves fuses
\* from which otp_macaddr_read returns exactly a; bytes 0-1 are in MAC_ADDR1
\* and bytes 2-5 in MAC_ADDR0.
C6_MacRoundTrip ==
    (IsMacWrite /\ ret = 0 /\ MacOf(pre) = MacZeros) =>
        /\ MacOf(fuse) = arg
        /\ LET r == otp_macaddr_read(Dev(fuse), NoFault)
           IN r.ret = 0 /\ r.macaddr = arg
        /\ arg # MacZeros =>
              /\ fuse[OCOTP_MAC_ADDR1] = ToWord(arg[1] * 256 + arg[2], 16)
              /\ fuse[OCOTP_MAC_ADDR0] \cap (0 .. 7) = ToWord(arg[6], 8)
              /\ Shr(fuse[OCOTP_MAC_ADDR0], 24) = ToWord(arg[3], 8)

\* C6 witness: an address of six different non-zero bytes, byte 2 with its
\* top bit set, written and read back
C6_Witness ==
    /\ IsMacWrite /\ ret = 0 /\ fault = NoFault
    /\ MacOf(pre) = MacZeros
    /\ Cardinality({arg[i] : i \in 1 .. 6} \ {0}) = 6
    /\ arg[3] >= 128
    /\ Len(WritesOf(io)) = 2
(***************************************************************************)
(* Single fuse words: otp___fuseword_read / _write / _update and the lock  *)
(* word update built on them.                                              *)
(***************************************************************************)
WordVal(k) == Shl(ToWord(k, 4), 8)
WordVals == {WordVal(k) : k \in 0 .. MaxWordVal}
WordIds == (0 .. MaxWordId) \cup {OTP___FUSEWORD_COUNT}

\* the word calls make one read and/or one write
WordReadFaults(at) == [at : {at}, kind : {"seek", "xfer"}]
WordWriteFaults(at) == [at : {at}, kind : FaultKinds]

\* the shape of the results of the word calls, as Called takes them
WordResult(r) == [d |-> r.d, ret |-> r.rc, errno |-> r.errno]

WordRead ==
    /\ pc = "idle"
    /\ \E id \in WordIds, flt \in {NoFault} \cup WordReadFaults(1) :
          LET r == otp___fuseword_read(Dev(fuse), id, flt)
          IN Called("read_word", [id |-> id], flt, WordResult(r),
                    IF r.rc = 0 THEN <<r.val>> ELSE <<>>)

WordWrite ==
    /\ pc = "idle"
    /\ \E id \in WordIds, val \in WordVals, flt \in {NoFault} \cup WordWriteFaults(1) :
          Called("write_word", [id |-> id, val |-> val], flt,
                 WordResult(otp___fuseword_write(Dev(fuse), id, val, flt)), <<>>)

WordUpdate ==
    /\ pc = "idle"
    /\ \E id \in WordIds, val \in WordVals,
          flt \in {NoFault} \cup WordReadFaults(1) \cup WordWriteFaults(2) :
          Called("update_word", [id |-> id, val |-> val], flt,
                 WordResult(otp___fuseword_update(Dev(fuse), id, val, flt)), <<>>)

\* a caller runs otp_locks_update(ctx, lockword)
LocksUpdate ==
    /\ pc = "idle"
    /\ \E val \in WordVals, flt \in {NoFault} \cup WordReadFaults(1) \cup WordWriteFaults(2) :
          Called("locks_update", [id |-> OCOTP_LOCK, val |-> val], flt,
                 WordResult(otp_locks_update(Dev(fuse), val, flt)), <<>>)

NextWord == WordRead \/ WordWrite \/ WordUpdate \/ LocksUpdate \/ Return

SpecWord == Init /\ [][NextWord]_vars

IsWordUpdate ==
    pc = "returned" /\ op \in {"update_word", "locks_update"} /\ arg.id \in FuseIds

\* C7: otp___fuseword_update of word id with value v issues no device write
\* when the word already holds v (as after a write_word of v) and, when it
\* does not and no I/O fails, exactly one write, of v to that word; under any
\* fault it issues at most that one write and touches no other word; after
\* every successful update the word holds v.
C7_UpdateWordConditional ==
    IsWordUpdate =>
        LET W == WritesOf(io)
        IN /\ pre[arg.id] = arg.val => (W = <<>> /\ (fault = NoFault => ret = 0))
           /\ (pre[arg.id] # arg.val /\ fault = NoFault) =>
                 /\ Len(W) = 1
                 /\ ret = 0
           /\ Len(W) <= 1
           /\ \A k \in 1 .. Len(W) : W[k].id = arg.id /\ W[k].val = arg.val
           /\ ret = 0 => fuse[arg.id] = arg.val
           /\ \A id \in FuseIds \ {arg.id} : fuse[id] = pre[id]

\* C7 witness: the word holds a non-zero value (a write_word stored it) and
\* an update with that value returned success without writing
C7_Witness ==
    /\ IsWordUpdate /\ fault = NoFault
    /\ arg.val # ZeroWord /\ pre[arg.id] = arg.val
    /\ ret = 0 /\ WritesOf(io) = <<>>
    /\ Len(ReadsOf(io)) = 1

(***************************************************************************)
(* The boot-configuration window on the device.                            *)
(***************************************************************************)
BootWord(k) == Shl(ToWord(k, 4), 24) \cup Shl(ToWord(k, 4), 8)
\* a window of n words alternating between two word values
BootWindow(a, b, n) == [i \in 1 .. n |-> IF i % 2 = 1 THEN BootWord(a) ELSE BootWord(b)]
BootWindows(n) == {BootWindow(a, b, n) : a \in 0 .. MaxBootVal, b \in 0 .. MaxBootVal}
BootSizes == {OTP_BOOTCFG_WORD_COUNT - 1, OTP_BOOTCFG_WORD_COUNT + 1}

\* otp_bootcfg_update reads 5 words, then writes up to 5
BootReadFaults == [at : 1 .. OTP_BOOTCFG_WORD_COUNT, kind : {"xfer"}]
BootWriteFaults ==
    [at : (OTP_BOOTCFG_WORD_COUNT + 1) .. (2 * OTP_BOOTCFG_WORD_COUNT), kind : FaultKinds]

\* a caller runs otp_bootcfg_update(ctx, newvals, OTP_BOOTCFG_WORD_COUNT)
BootcfgUpdate ==
    /\ pc = "idle"
    /\ \E newvals \in BootWindows(OTP_BOOTCFG_WORD_COUNT),
          flt \in {NoFault} \cup BootReadFaults \cup BootWriteFaults :
          Called("update_window", newvals, flt,
                 otp_bootcfg_update(Dev(fuse), newvals, OTP_BOOTCFG_WORD_COUNT, flt), <<>>)

\* a caller runs otp_bootcfg_update with a window of another size
BootcfgUpdateBadSize ==
    /\ pc = "idle"
    /\ \E n \in BootSizes : \E newvals \in BootWindows(n) :
          Called("update_window", newvals, NoFault,
                 otp_bootcfg_update(Dev(fuse), newvals, n, NoFault), <<>>)

\* a caller runs otp_bootcfg_read(ctx, fusewords, OTP_BOOTCFG_WORD_COUNT)
BootcfgRead ==
    /\ pc = "idle"
    /\ \E flt \in {NoFault} \cup BootReadFaults :
          LET r == otp_bootcfg_read(Dev(fuse), OTP_BOOTCFG_WORD_COUNT, flt)
          IN Called("read_window", <<>>, flt, r, r.words)

NextBoot == BootcfgUpdate \/ BootcfgUpdateBadSize \/ BootcfgRead \/ Return

SpecBoot == Init /\ [][NextBoot]_vars

BootIdx == 0 .. (OTP_BOOTCFG_WORD_COUNT - 1)
BootOf(f) == [i \in 1 .. OTP_BOOTCFG_WORD_COUNT |-> f[bootcfg_fuses[i - 1]]]
IsBootUpdate == pc = "returned" /\ op \in {"update_window", "update_window_retry"}

\* C8: otp_bootcfg_update with a 5-word window first reads BOOT_CFG0..4 in
\* order, then writes, in increasing index order, only words whose device
\* value differs from the window (all of them when no I/O fails), and
\* changes no other fuse word; with a window of another size it fails with
\* EINVAL having made no device access.
C8_UpdateWindowFrame ==
    IsBootUpdate =>
        LET W == WritesOf(io)
            R == ReadsOf(io)
            D == {i \in BootIdx : pre[bootcfg_fuses[i]] # arg[i + 1]}
        IN IF Len(arg) # OTP_BOOTCFG_WORD_COUNT
           THEN ret = -1 /\ err = "EINVAL" /\ io = <<>> /\ fuse = pre
           ELSE /\ \A k \in 1 .. Len(R) : R[k].id = bootcfg_fuses[k - 1]
                /\ io = R \o W
                /\ W # <<>> => Len(R) = OTP_BOOTCFG_WORD_COUNT
                /\ \A k \in 1 .. Len(W) :
                      /\ W[k].id \in {bootcfg_fuses[i] : i \in D}
                      /\ W[k].val = arg[W[k].id - OCOTP_BOOT_CFG0 + 1]
                /\ \A k \in 1 .. (Len(W) - 1) : W[k].id < W[k + 1].id
                /\ fault = NoFault =>
                      /\ ret = 0
                      /\ Len(R) = OTP_BOOTCFG_WORD_COUNT
                      /\ {W[k].id : k \in 1 .. Len(W)} = {bootcfg_fuses[i] : i \in D}
                      /\ BootOf(fuse) = arg
                /\ \A id \in FuseIds :
                      id \notin {bootcfg_fuses[i] : i \in D} => fuse[id] = pre[id]

\* C8 witness: a fault-free update that had to write indices 1 and 3 only
C8_Witness ==
    /\ IsBootUpdate /\ fault = NoFault /\ ret = 0
    /\ Len(arg) = OTP_BOOTCFG_WORD_COUNT
    /\ Len(ReadsOf(io)) = OTP_BOOTCFG_WORD_COUNT
    /\ {r.id : r \in {WritesOf(io)[k] : k \in 1 .. Len(WritesOf(io))}}
          = {bootcfg_fuses[1], bootcfg_fuses[3]}
    /\ pre[bootcfg_fuses[0]] # ZeroWord

\* C4 (as claimed): no device write of a call clears a bit that is set in
\* the word it overwrites.
C4_NoWriteClearsBit ==
    \A k \in 1 .. Len(io) : io[k].op = "write" => (io[k].cur \ io[k].val) = {}
(***************************************************************************)
(* Re-running an aborted multi-word update.                                *)
(***************************************************************************)
\* the first k words of a hash programmed, the others blank
SrkPartial(h, k) ==
    [id \in FuseIds |->
        IF id \in {srk_fuse[i] : i \in 0 .. (k - 1)} THEN h[id - OCOTP_SRK0 + 1] ELSE ZeroWord]
BootImage(w) ==
    [id \in FuseIds |->
        IF id \in {bootcfg_fuses[i] : i \in BootIdx} THEN w[id - OCOTP_BOOT_CFG0 + 1]
        ELSE ZeroWord]

\* the device when the caller starts: an SRK hash programmed up to some
\* index, or a boot-configuration window programmed
RetryImages ==
    {SrkPartial(h, k) : h \in SrkHashes, k \in 0 .. SRK_FUSE_COUNT}
    \cup {BootImage(w) : w \in BootWindows(OTP_BOOTCFG_WORD_COUNT)}

InitRetry ==
    /\ fuse \in RetryImages
    /\ NoCall
    /\ NoContext

\* after a failed otp_bootcfg_update the caller re-runs it with the same
\* window; the environment injects no fault into the re-run
BootcfgUpdateRetry ==
    /\ pc = "returned"
    /\ op = "update_window"
    /\ ret < 0
    /\ Called("update_window_retry", arg, NoFault,
              otp_bootcfg_update(Dev(fuse), arg, OTP_BOOTCFG_WORD_COUNT, NoFault), <<>>)

NextRetry == SrkWrite \/ SrkWriteRetry \/ BootcfgUpdate \/ BootcfgUpdateRetry

SpecRetry == InitRetry /\ [][NextRetry]_vars

\* the call that just returned was aborted by an I/O failure in its write
\* loop, after n reads
AbortedInWrites(o, n) ==
    pc = "returned" /\ op = o /\ ret < 0 /\ err = "EIO" /\ fault.at > n

\* C9: when otp_srk_write or otp_bootcfg_update was aborted by an I/O failure
\* in its write loop (with any number of its writes applied), the fault-free
\* re-run with the same desired words succeeds and leaves the device words
\* equal to them.
C9_RetryIdempotent ==
    [][/\ (AbortedInWrites("srk_write", SRK_FUSE_COUNT) /\ op' = "srk_write_retry") =>
            (ret' = SRK_FUSE_COUNT /\ SrkOf(fuse') = arg /\ arg' = arg)
       /\ (AbortedInWrites("update_window", OTP_BOOTCFG_WORD_COUNT)
             /\ op' = "update_window_retry") =>
            (ret' = 0 /\ BootOf(fuse') = arg /\ arg' = arg)]_vars

\* C9 witness: the re-run of an SRK write found the hash programmed in part
\* (the aborted run had stored some words), wrote the rest and succeeded
C9_Witness ==
    /\ pc = "returned" /\ op = "srk_write_retry"
    /\ ret = SRK_FUSE_COUNT
    /\ \E i \in SrkIdx : pre[srk_fuse[i]] # ZeroWord /\ pre[srk_fuse[i]] = arg[i + 1]
    /\ WritesOf(io) # <<>>
    /\ SrkOf(fuse) = arg

(***************************************************************************)
(* The in-memory boot-configuration codec (no device access).              *)
(***************************************************************************)
BoolIds == {OTP_BOOT_CFG_DIR_BT_DIS, OTP_BOOT_CFG_BT_FUSE_SEL, OTP_BOOT_CFG_SJC_DISABLE,
            OTP_BOOT_CFG_SEC_CONFIG, OTP_BOOT_CFG_WDOG_ENABLE, OTP_BOOT_CFG_TZASC_ENABLE}
\* the bits of BOOT_CFG0 and BOOT_CFG1 that hold fields
CfgBits0 == {21, 25, 27, 28}
CfgBits1 == {10, 11, 16, 17}
\* filler for the other bits: none, or every k-th bit
CfgFill(k) == {i \in Bits : k > 0 /\ i % k = 0}
CfgSizes == {1, 2, OTP_BOOTCFG_WORD_COUNT}
\* windows of n words: every combination of the field bits over each filler
CfgWindows(n) ==
    {[i \in 1 .. n |->
        IF i = 1 THEN s0 \cup (CfgFill(k) \ CfgBits0)
        ELSE IF i = 2 THEN s1 \cup (CfgFill(k) \ CfgBits1)
        ELSE CfgFill(k)] :
        s0 \in SUBSET CfgBits0, s1 \in SUBSET CfgBits1, k \in 0 .. MaxCfgFill}
\* field ids, and one past the last
CfgIds == 0 .. OTP_BOOT_CFG_COUNT

\* the shape Called takes: these calls make no device access
Pure(r) == [d |-> Dev(fuse), ret |-> r.ret, errno |-> r.errno]

\* a caller runs otp_bootcfg_bool_set(fusewords, n, id, value)
BoolSet ==
    /\ pc = "idle"
    /\ \E n \in CfgSizes : \E w \in CfgWindows(n), id \in CfgIds, value \in BOOLEAN :
          LET r == otp_bootcfg_bool_set(w, n, id, value)
          IN Called("bool_set", [fusewords |-> w, id |-> id, value |-> value],
                    NoFault, Pure(r), r.fusewords)

\* a caller runs otp_bootcfg_bool_get(fusewords, n, id, &value)
BoolGet ==
    /\ pc = "idle"
    /\ \E n \in CfgSizes : \E w \in CfgWindows(n), id \in CfgIds :
          LET r == otp_bootcfg_bool_get(w, n, id)
          IN Called("bool_get", [fusewords |-> w, id |-> id], NoFault, Pure(r), r.value)

\* windows for the watchdog calls: every combination of the BOOT_CFG1 field
\* bits, the BOOT_CFG0 field bits all clear or all set, over each filler
WdogWindows(n) ==
    {[i \in 1 .. n |->
        IF i = 1 THEN s0 \cup (CfgFill(k) \ CfgBits0)
        ELSE IF i = 2 THEN s1 \cup (CfgFill(k) \ CfgBits1)
        ELSE CfgFill(k)] :
        s0 \in {{}, CfgBits0}, s1 \in SUBSET CfgBits1, k \in 0 .. MaxCfgFill}
\* timeouts asked for: leave unchanged, the table's entries, and others
WdogTimeouts == {0, 64, 32, 16, 8, 4, 1, 100}
\* what a read beyond timeouts[] can produce
OobReads == {OobTrap, 0, 100}

\* a caller runs otp_bootcfg_wdog_set(fusewords, n, enabled, timeout)
WdogSet ==
    /\ pc = "idle"
    /\ \E n \in CfgSizes : \E w \in WdogWindows(n), enabled \in BOOLEAN,
                              t \in WdogTimeouts, oob \in OobReads :
          LET r == otp_bootcfg_wdog_set(w, n, enabled, t, oob)
          IN Called("wdog_set",
                    [fusewords |-> w, enabled |-> enabled, timeout |-> t,
                     oob |-> oob, prev |-> 0],
                    NoFault, Pure(r), r.fusewords)

\* after a successful otp_bootcfg_wdog_set with a timeout, the caller runs
\* it again on the resulting window with timeout 0 (leave unchanged)
WdogSetKeep ==
    /\ pc = "returned"
    /\ op = "wdog_set"
    /\ ret = 0
    /\ arg.timeout # 0
    /\ \E enabled \in BOOLEAN :
          LET r == otp_bootcfg_wdog_set(out, Len(out), enabled, 0, arg.oob)
          IN Called("wdog_set_keep",
                    [fusewords |-> out, enabled |-> enabled, timeout |-> 0,
                     oob |-> arg.oob, prev |-> arg.timeout],
                    NoFault, Pure(r), r.fusewords)

\* after a successful otp_bootcfg_wdog_set the caller runs
\* otp_bootcfg_wdog_get on the resulting window
WdogGetAfter ==
    /\ pc = "returned"
    /\ op \in {"wdog_set", "wdog_set_keep"}
    /\ ret = 0
    /\ \E oob \in OobReads :
          LET r == otp_bootcfg_wdog_get(out, Len(out), oob)
          IN Called("wdog_get_after", [fusewords |-> out, oob |-> oob, set |-> arg],
                    NoFault, Pure(r), r.value)

\* a caller runs otp_bootcfg_wdog_get(fusewords, n, &enabled, &timeout)
WdogGet ==
    /\ pc = "idle"
    /\ \E n \in CfgSizes : \E w \in WdogWindows(n), oob \in OobReads :
          LET r == otp_bootcfg_wdog_get(w, n, oob)
          IN Called("wdog_get", [fusewords |-> w, oob |-> oob], NoFault, Pure(r), r.value)

NextCfg == BoolSet \/ BoolGet \/ WdogSet \/ WdogSetKeep \/ WdogGetAfter \/ WdogGet \/ Return

SpecCfg == Init /\ [][NextCfg]_vars

IsBoolSet == pc = "returned" /\ op = "bool_set"

\* C10: for each of the six boolean fields and every window of at least two
\* words, otp_bootcfg_bool_set succeeds and otp_bootcfg_bool_get on the
\* resulting window returns the value that was set, whatever the other bits.
C10_FlagRoundTrip ==
    (IsBoolSet /\ arg.id \in BoolIds /\ Len(arg.fusewords) >= 2) =>
        /\ ret = 0
        /\ LET g == otp_bootcfg_bool_get(out, Len(out), arg.id)
           IN g.ret = 0 /\ g.value = <<arg.value>>

\* C10 witness: SEC_CONFIG cleared in a window that had it and every other
\* field bit set
C10_Witness ==
    /\ IsBoolSet /\ ret = 0
    /\ arg.id = OTP_BOOT_CFG_SEC_CONFIG /\ arg.value = FALSE
    /\ CfgBits0 \subseteq arg.fusewords[1]
    /\ CfgBits1 \subseteq arg.fusewords[2]
    /\ out[1] \cap CfgBits0 = CfgBits0 \ {25}

(***************************************************************************)
(* Properties of the watchdog codec.                                       *)
(***************************************************************************)
\* the table of the specification: 2-bit code -> seconds
WdogTable == <<64, 32, 16, 8>>
WdogTableValues == {WdogTable[i] : i \in 1 .. Len(WdogTable)}
IsWdogSet == pc = "returned" /\ op \in {"wdog_set", "wdog_set_keep"}
IsWdogGet == pc = "returned" /\ op \in {"wdog_get", "wdog_get_after"}
\* the value of the 2-bit field at the offset bootcfg_offset gives the
\* timeout field, in window word w
WdogField(w) ==
    ToNum(Shr(w \cap Mask2(OTP_BOOT_CFG_WDOG_TIMEOUT),
              bootcfg_offset[OTP_BOOT_CFG_WDOG_TIMEOUT]))

\* C11: for every timeout t of the table {64, 32, 16, 8} and every window
\* of at least two words, otp_bootcfg_wdog_set(w, true, t) succeeds and a
\* following otp_bootcfg_wdog_get returns enabled = true and timeout = t.
C11_WatchdogRoundTrip ==
    /\ (pc = "returned" /\ op = "wdog_set" /\ arg.enabled
          /\ arg.timeout \in WdogTableValues /\ Len(arg.fusewords) >= 2) => ret = 0
    /\ (pc = "returned" /\ op = "wdog_get_after" /\ arg.set.enabled
          /\ arg.set.timeout \in WdogTableValues) =>
            (ret = 0 /\ out = <<TRUE, arg.set.timeout>>)

\* C12: for every window of at least two words otp_bootcfg_wdog_get
\* succeeds and returns the watchdog-enable flag and table[v], v being the
\* 2-bit field at the offset of the timeout field; the lookup never leaves
\* the table.
C12_WatchdogDecode ==
    (IsWdogGet /\ Len(arg.fusewords) >= 2) =>
        /\ ret = 0
        /\ out = <<bootcfg_offset[OTP_BOOT_CFG_WDOG_ENABLE] \in arg.fusewords[2],
                   WdogTable[WdogField(arg.fusewords[2]) + 1]>>

\* C13: otp_bootcfg_wdog_set with timeout 0 leaves the bits of the timeout
\* field as they were, and on a window whose timeout was set to 32 before,
\* otp_bootcfg_wdog_set(w, true, 0) followed by otp_bootcfg_wdog_get
\* returns (true, 32).
C13_ZeroKeepsTimeout ==
    /\ (IsWdogSet /\ arg.timeout = 0 /\ Len(arg.fusewords) >= 2) =>
          (ret = 0 /\ out[2] \cap Mask2(OTP_BOOT_CFG_WDOG_TIMEOUT)
                        = arg.fusewords[2] \cap Mask2(OTP_BOOT_CFG_WDOG_TIMEOUT))
    /\ (pc = "returned" /\ op = "wdog_get_after" /\ arg.set.timeout = 0
          /\ arg.set.prev = 32 /\ arg.set.enabled) =>
            (ret = 0 /\ out = <<TRUE, 32>>)

\* C14: for every non-zero timeout that is not 64, 32, 16 or 8,
\* otp_bootcfg_wdog_set fails with EINVAL and leaves every word of the
\* window, the enable flag included, as it was.
C14_UnknownTimeoutRejected ==
    (IsWdogSet /\ arg.timeout # 0 /\ arg.timeout \notin WdogTableValues) =>
        (ret = -1 /\ err = "EINVAL" /\ out = arg.fusewords)

\* C15: otp_bootcfg_bool_get fails with EINVAL and produces no value when
\* the field is the watchdog timeout or the window has fewer than two
\* words, and succeeds for every boolean field on a window of two or more.
C15_GetFlagRejectsTimeout ==
    (pc = "returned" /\ op = "bool_get" /\ arg.id < OTP_BOOT_CFG_COUNT) =>
        IF arg.id = OTP_BOOT_CFG_WDOG_TIMEOUT \/ Len(arg.fusewords) < 2
        THEN ret = -1 /\ err = "EINVAL" /\ out = <<>>
        ELSE ret = 0 /\ Len(out) = 1

\* C20: a successful otp_bootcfg_wdog_set with timeout 0 or a timeout of
\* the table changes only the watchdog-enable bit and, for a non-zero
\* timeout, the two bits of the timeout field; every other bit of the
\* window (TZASC_ENABLE, all of word 0) keeps its value and the enable bit
\* ends equal to the value asked for.
C20_SetWatchdogFrame ==
    (IsWdogSet /\ ret = 0 /\ arg.timeout \in WdogTableValues \cup {0}) =>
        LET mayChange == Bit(bootcfg_offset[OTP_BOOT_CFG_WDOG_ENABLE])
                         \cup (IF arg.timeout # 0
                               THEN Mask2(OTP_BOOT_CFG_WDOG_TIMEOUT) ELSE {})
        IN /\ Len(out) = Len(arg.fusewords)
           /\ \A i \in 1 .. Len(out) : i # 2 => out[i] = arg.fusewords[i]
           /\ out[2] \ mayChange = arg.fusewords[2] \ mayChange
           /\ (bootcfg_offset[OTP_BOOT_CFG_WDOG_ENABLE] \in out[2]) = arg.enabled

(***************************************************************************)
(* otp_lock.h / otp_lock.c: the lock word codec (no device access)         *)
(***************************************************************************)
\* enum otp_lock_id_t: the 2-bit locks, then the 1-bit locks
OTP_LOCK_TESTER == 0
OTP_LOCK_BOOT_CFG == 1
OTP_LOCK_USB_ID == 2
OTP_LOCK_MAC_ADDR == 3
OTP_LOCK_GP1 == 4
OTP_LOCK_GP2 == 5
OTP_LOCK_GP5 == 6
OTP_LOCK_SRK == 7
OTP_LOCK_SJC_RESP == 8
OTP_LOCK_MANUFACTURE_KEY == 9
OTP_LOCK_COUNT == 10

\* enum otp_lockstate_t
OTP_LOCKSTATE_UNLOCKED == 0
OTP_LOCKSTATE_LOCKED == 1
OTP_LOCKSTATE_O_PROTECT == 2
OTP_LOCKSTATE_W_PROTECT == 3
OTP_LOCKSTATE_OW_PROTECT == 4
OTP_LOCKSTATE_COUNT == 5

\* lock_offsets[]
lock_offsets ==
    (OTP_LOCK_TESTER :> 0) @@ (OTP_LOCK_BOOT_CFG :> 2) @@ (OTP_LOCK_SRK :> 9)
    @@ (OTP_LOCK_SJC_RESP :> 10) @@ (OTP_LOCK_USB_ID :> 12) @@ (OTP_LOCK_MAC_ADDR :> 14)
    @@ (OTP_LOCK_MANUFACTURE_KEY :> 16) @@ (OTP_LOCK_GP1 :> 20) @@ (OTP_LOCK_GP2 :> 22)
    @@ (OTP_LOCK_GP5 :> 24)

\* lock_is_1bit[]
lock_is_1bit ==
    [id \in 0 .. (OTP_LOCK_COUNT - 1) |->
        id \in {OTP_LOCK_SRK, OTP_LOCK_SJC_RESP, OTP_LOCK_MANUFACTURE_KEY}]

\* twobit_states[4] of otp_lockstate_get; C index i is element i + 1
twobit_states == <<OTP_LOCKSTATE_UNLOCKED, OTP_LOCKSTATE_W_PROTECT,
                   OTP_LOCKSTATE_O_PROTECT, OTP_LOCKSTATE_OW_PROTECT>>

\* otp_lockstate_get: *lockstate is written only on success
otp_lockstate_get(lockword, id) ==
    IF id >= OTP_LOCK_COUNT
    THEN [ret |-> -1, errno |-> "EINVAL", lockstate |-> <<>>]
    ELSE IF lock_is_1bit[id]
    THEN [ret |-> 0, errno |-> "",
          lockstate |-> <<IF Shr(lockword, lock_offsets[id]) \cap {0} # ZeroWord
                          THEN OTP_LOCKSTATE_LOCKED ELSE OTP_LOCKSTATE_UNLOCKED>>]
    ELSE [ret |-> 0, errno |-> "",
          lockstate |-> <<twobit_states[ToNum(Shr(lockword, lock_offsets[id])
                                                \cap {0, 1}) + 1]>>]

\* *lockword &= ~off_mask; *lockword |= on_mask, the masks being the 2-bit
\* numbers off and on shifted to the lock's offset
lock_masks(lockword, id, off, on) ==
    (lockword \cap Not(Shl(ToWord(off, 2), lock_offsets[id])))
        \cup Shl(ToWord(on, 2), lock_offsets[id])

\* mutant: the masks of O_PROTECT and W_PROTECT are exchanged
otp_lockstate_set_swapped(id, newstate, lockword) ==
    IF id >= OTP_LOCK_COUNT \/ newstate >= OTP_LOCKSTATE_COUNT
    THEN [ret |-> -1, errno |-> "EINVAL", lockword |-> lockword]
    ELSE IF lock_is_1bit[id]
    THEN IF newstate = OTP_LOCKSTATE_UNLOCKED
         THEN [ret |-> 0, errno |-> "", lockword |-> lock_masks(lockword, id, 1, 0)]
         ELSE IF newstate = OTP_LOCKSTATE_LOCKED
         THEN [ret |-> 0, errno |-> "", lockword |-> lock_masks(lockword, id, 0, 1)]
         ELSE [ret |-> -1, errno |-> "EINVAL", lockword |-> lockword]
    ELSE IF newstate = OTP_LOCKSTATE_UNLOCKED
         THEN [ret |-> 0, errno |-> "", lockword |-> lock_masks(lockword, id, 3, 0)]
         ELSE IF newstate = OTP_LOCKSTATE_O_PROTECT
         THEN [ret |-> 0, errno |-> "", lockword |-> lock_masks(lockword, id, 2, 1)]
         ELSE IF newstate = OTP_LOCKSTATE_W_PROTECT
         THEN [ret |-> 0, errno |-> "", lockword |-> lock_masks(lockword, id, 1, 2)]
         ELSE IF newstate = OTP_LOCKSTATE_OW_PROTECT
         THEN [ret |-> 0, errno |-> "", lockword |-> lock_masks(lockword, id, 0, 3)]
         ELSE [ret |-> -1, errno |-> "EINVAL", lockword |-> lockword]

\* mutant: a 1-bit lock takes every state but UNLOCKED as LOCKED
otp_lockstate_set_lax(id, newstate, lockword) ==
    IF id >= OTP_LOCK_COUNT \/ newstate >= OTP_LOCKSTATE_COUNT
    THEN [ret |-> -1, errno |-> "EINVAL", lockword |-> lockword]
    ELSE IF lock_is_1bit[id]
    THEN IF newstate = OTP_LOCKSTATE_UNLOCKED
         THEN [ret |-> 0, errno |-> "", lockword |-> lock_masks(lockword, id, 1, 0)]
         ELSE [ret |-> 0, errno |-> "", lockword |-> lock_masks(lockword, id, 0, 1)]
    ELSE IF newstate = OTP_LOCKSTATE_UNLOCKED
         THEN [ret |-> 0, errno |-> "", lockword |-> lock_masks(lockword, id, 3, 0)]
         ELSE IF newstate = OTP_LOCKSTATE_O_PROTECT
         THEN [ret |-> 0, errno |-> "", lockword |-> lock_masks(lockword, id, 1, 2)]
         ELSE IF newstate = OTP_LOCKSTATE_W_PROTECT
         THEN [ret |-> 0, errno |-> "", lockword |-> lock_masks(lockword, id, 2, 1)]
         ELSE IF newstate = OTP_LOCKSTATE_OW_PROTECT
         THEN [ret |-> 0, errno |-> "", lockword |-> lock_masks(lockword, id, 0, 3)]
         ELSE [ret |-> -1, errno |-> "EINVAL", lockword |-> lockword]

\* mutant: a 1-bit lock is cleared and set with the mask of a 2-bit lock
otp_lockstate_set_wide(id, newstate, lockword) ==
    IF id >= OTP_LOCK_COUNT \/ newstate >= OTP_LOCKSTATE_COUNT
    THEN [ret |-> -1, errno |-> "EINVAL", lockword |-> lockword]
    ELSE IF lock_is_1bit[id]
    THEN IF newstate = OTP_LOCKSTATE_UNLOCKED
         THEN [ret |-> 0, errno |-> "", lockword |-> lock_masks(lockword, id, 3, 0)]
         ELSE IF newstate = OTP_LOCKSTATE_LOCKED
         THEN [ret |-> 0, errno |-> "", lockword |-> lock_masks(lockword, id, 2, 1)]
         ELSE [ret |-> -1, errno |-> "EINVAL", lockword |-> lockword]
    ELSE IF newstate = OTP_LOCKSTATE_UNLOCKED
         THEN [ret |-> 0, errno |-> "", lockword |-> lock_masks(lockword, id, 3, 0)]
         ELSE IF newstate = OTP_LOCKSTATE_O_PROTECT
         THEN [ret |-> 0, errno |-> "", lockword |-> lock_masks(lockword, id, 1, 2)]
         ELSE IF newstate = OTP_LOCKSTATE_W_PROTECT
         THEN [ret |-> 0, errno |-> "", lockword |-> lock_masks(lockword, id, 2, 1)]
         ELSE IF newstate = OTP_LOCKSTATE_OW_PROTECT
         THEN [ret |-> 0, errno |-> "", lockword |-> lock_masks(lockword, id, 0, 3)]
         ELSE [ret |-> -1, errno |-> "EINVAL", lockword |-> lockword]

\* otp_lockstate_set: the word is modified only on success
otp_lockstate_set(id, newstate, lockword) ==
    IF id >= OTP_LOCK_COUNT \/ newstate >= OTP_LOCKSTATE_COUNT
    THEN [ret |-> -1, errno |-> "EINVAL", lockword |-> lockword]
    ELSE IF lock_is_1bit[id]
    THEN IF newstate = OTP_LOCKSTATE_UNLOCKED
         THEN [ret |-> 0, errno |-> "", lockword |-> lock_masks(lockword, id, 1, 0)]
         ELSE IF newstate = OTP_LOCKSTATE_LOCKED
         THEN [ret |-> 0, errno |-> "", lockword |-> lock_masks(lockword, id, 0, 1)]
         ELSE [ret |-> -1, errno |-> "EINVAL", lockword |-> lockword]
    ELSE IF newstate = OTP_LOCKSTATE_UNLOCKED
         THEN [ret |-> 0, errno |-> "", lockword |-> lock_masks(lockword, id, 3, 0)]
         ELSE IF newstate = OTP_LOCKSTATE_O_PROTECT
         THEN [ret |-> 0, errno |-> "", lockword |-> lock_masks(lockword, id, 1, 2)]
         ELSE IF newstate = OTP_LOCKSTATE_W_PROTECT
         THEN [ret |-> 0, errno |-> "", lockword |-> lock_masks(lockword, id, 2, 1)]
         ELSE IF newstate = OTP_LOCKSTATE_OW_PROTECT
         THEN [ret |-> 0, errno |-> "", lockword |-> lock_masks(lockword, id, 0, 3)]
         ELSE [ret |-> -1, errno |-> "EINVAL", lockword |-> lockword]

\* lock words a caller starts from: none of, every (k+1)-th of, or all but
\* every (k+1)-th of the 32 bits
LockPattern(k) == {i \in Bits : k > 0 /\ i % (k + 1) = 0}
LockWords == UNION {{LockPattern(k), Not(LockPattern(k))} : k \in 0 .. MaxLockVal}
\* lock ids and states, and one past the last of each
LockIds == 0 .. OTP_LOCK_COUNT
LockStates == 0 .. OTP_LOCKSTATE_COUNT

\* a caller runs otp_lockstate_set(id, newstate, &lockword)
LockSet ==
    /\ pc = "idle"
    /\ \E id \in LockIds, s \in LockStates, w \in LockWords :
          LET r == otp_lockstate_set(id, s, w)
          IN Called("lock_set", [id |-> id, newstate |-> s, lockword |-> w],
                    NoFault, Pure(r), <<r.lockword>>)

\* after a successful otp_lockstate_set the caller runs otp_lockstate_get
\* on the resulting word, for the same lock
LockGetAfter ==
    /\ pc = "returned"
    /\ op = "lock_set"
    /\ ret = 0
    /\ LET r == otp_lockstate_get(out[1], arg.id)
       IN Called("lock_get_after", [id |-> arg.id, lockword |-> out[1], set |-> arg],
                 NoFault, Pure(r), r.lockstate)

\* a caller runs otp_lockstate_get(lockword, id, &lockstate)
LockGet ==
    /\ pc = "idle"
    /\ \E id \in LockIds, w \in LockWords :
          LET r == otp_lockstate_get(w, id)
          IN Called("lock_get", [id |-> id, lockword |-> w], NoFault, Pure(r), r.lockstate)

\* after a successful otp_lockstate_set the caller runs otp_lockstate_get
\* on the resulting word, for another lock
LockGetOther ==
    /\ pc = "returned"
    /\ op = "lock_set"
    /\ ret = 0
    /\ \E b \in (0 .. (OTP_LOCK_COUNT - 1)) \ {arg.id} :
          LET r == otp_lockstate_get(out[1], b)
          IN Called("lock_get_other", [id |-> b, lockword |-> out[1], set |-> arg],
                    NoFault, Pure(r), r.lockstate)

NextLock == LockSet \/ LockGetAfter \/ LockGetOther \/ LockGet \/ Return

SpecLock == Init /\ [][NextLock]_vars

(***************************************************************************)
(* Properties of the lock word codec.                                      *)
(***************************************************************************)
TwoBitLocks == {id \in 0 .. (OTP_LOCK_COUNT - 1) : ~lock_is_1bit[id]}
OneBitLocks == {id \in 0 .. (OTP_LOCK_COUNT - 1) : lock_is_1bit[id]}
TwoBitStates == {OTP_LOCKSTATE_UNLOCKED, OTP_LOCKSTATE_W_PROTECT,
                 OTP_LOCKSTATE_O_PROTECT, OTP_LOCKSTATE_OW_PROTECT}
OneBitStates == {OTP_LOCKSTATE_UNLOCKED, OTP_LOCKSTATE_LOCKED}
\* the field value the specification gives each state
LockCode(s) ==
    IF s = OTP_LOCKSTATE_UNLOCKED THEN 0
    ELSE IF s \in {OTP_LOCKSTATE_W_PROTECT, OTP_LOCKSTATE_LOCKED} THEN 1
    ELSE IF s = OTP_LOCKSTATE_O_PROTECT THEN 2 ELSE 3
\* the value of the lock's own field (1 or 2 bits) in a lock word
LockField(w, id) ==
    ToNum(Shr(w, lock_offsets[id]) \cap (IF lock_is_1bit[id] THEN {0} ELSE {0, 1}))
IsLockSet == pc = "returned" /\ op = "lock_set"
ValidFor(id, s) ==
    \/ id \in TwoBitLocks /\ s \in TwoBitStates
    \/ id \in OneBitLocks /\ s \in OneBitStates

\* C16: for every 2-bit lock and each of UNLOCKED, W_PROTECT, O_PROTECT,
\* OW_PROTECT, and every 1-bit lock and each of UNLOCKED, LOCKED,
\* otp_lockstate_set from any starting word succeeds, leaves the lock's
\* field holding 0, 1, 2, 3 (0, 1 for a 1-bit lock) respectively, and
\* otp_lockstate_get on the resulting word returns the state that was set.
C16_LockRoundTrip ==
    /\ (IsLockSet /\ ValidFor(arg.id, arg.newstate)) =>
          (ret = 0 /\ LockField(out[1], arg.id) = LockCode(arg.newstate))
    /\ (pc = "returned" /\ op = "lock_get_after"
          /\ ValidFor(arg.set.id, arg.set.newstate)) =>
          (ret = 0 /\ out = <<arg.set.newstate>>)

\* C16 witness: W_PROTECT set and read back for GP5 on a word whose GP5
\* field held 2 (O_PROTECT)
C16_Witness ==
    /\ pc = "returned" /\ op = "lock_get_after"
    /\ arg.set.id = OTP_LOCK_GP5 /\ arg.set.newstate = OTP_LOCKSTATE_W_PROTECT
    /\ LockField(arg.set.lockword, OTP_LOCK_GP5) = 2
    /\ out = <<OTP_LOCKSTATE_W_PROTECT>>

\* C17: otp_lockstate_set fails with EINVAL for a 1-bit lock and any state
\* other than UNLOCKED or LOCKED, and for a lock id or state out of range;
\* it accepts the four 2-bit states for every 2-bit lock; every failing
\* call leaves the lock word as it was.
C17_LockStateValidated ==
    IsLockSet =>
        /\ (arg.id \in OneBitLocks /\ arg.newstate \notin OneBitStates) =>
              (ret = -1 /\ err = "EINVAL")
        /\ (arg.id \in TwoBitLocks /\ arg.newstate \in TwoBitStates) => ret = 0
        /\ (arg.id >= OTP_LOCK_COUNT \/ arg.newstate >= OTP_LOCKSTATE_COUNT) =>
              (ret = -1 /\ err = "EINVAL")
        /\ ret # 0 => out = <<arg.lockword>>

\* C17 witness: W_PROTECT refused for the 1-bit SRK lock on a word that has
\* the SRK lock bit clear and other bits set
C17_Witness ==
    /\ IsLockSet
    /\ arg.id = OTP_LOCK_SRK /\ arg.newstate = OTP_LOCKSTATE_W_PROTECT
    /\ lock_offsets[OTP_LOCK_SRK] \notin arg.lockword /\ arg.lockword # ZeroWord
    /\ ret = -1 /\ err = "EINVAL" /\ out = <<arg.lockword>>

(***************************************************************************)
(* otp_core.c: otp_context_open / otp_context_close                        *)
(***************************************************************************)
\* "i.MX8MM", the SoC id is_compatible compares with; text is a sequence of
\* characters
SOC_ID == <<"i", ".", "M", "X", "8", "M", "M">>
\* sizeof(socid)
SocIdSize == 32

\* a process in a call: its handle variables, heap, descriptor table and
\* the system calls and frees the call has made
Proc == [ctx |-> ctx, heap |-> heap, fds |-> fds, io |-> <<>>]
SysRec(o, path, fd, ok) == [op |-> o, path |-> path, fd |-> fd, ok |-> ok]

\* descriptors 0..2 are stdin, stdout, stderr
FdRange == 3 .. (2 + MaxFds)
\* open(path, ...): the lowest free descriptor; exists says whether the
\* file can be opened, and a full table fails with EMFILE
sys_open(p, path, exists) ==
    LET free == FdRange \ p.fds
        fd == CHOOSE x \in free : \A y \in free : x <= y
    IN IF ~exists
       THEN [p |-> [p EXCEPT !.io = Append(@, SysRec("open", path, -1, FALSE))],
             fd |-> -1, errno |-> "ENOENT"]
       ELSE IF free = {}
       THEN [p |-> [p EXCEPT !.io = Append(@, SysRec("open", path, -1, FALSE))],
             fd |-> -1, errno |-> "EMFILE"]
       ELSE [p |-> [p EXCEPT !.fds = @ \cup {fd},
                             !.io = Append(@, SysRec("open", path, fd, TRUE))],
             fd |-> fd, errno |-> ""]

\* close(fd): releases the descriptor; on one that is not open it fails
\* (EBADF) and the record has ok = FALSE
sys_close(p, path, fd) ==
    [p EXCEPT !.fds = @ \ {fd},
              !.io = Append(@, SysRec("close", path, fd, fd \in p.fds))]

\* free(ptr): ok = FALSE records the free of an object that is not allocated
heap_free(p, a) ==
    [p EXCEPT !.heap[a].live = FALSE,
              !.io = Append(@, SysRec("free", "", a, p.heap[a].live))]

\* is_compatible: soc is the file /sys/devices/soc0/soc_id, [present, text]
is_compatible(p, soc) ==
    LET o == sys_open(p, "soc_id", soc.present)
    IN IF o.fd < 0
       THEN [p |-> o.p, val |-> FALSE]
       ELSE LET n == IF Len(soc.text) > SocIdSize THEN SocIdSize ELSE Len(soc.text)
                rd == [o.p EXCEPT !.io = Append(@, SysRec("read", "soc_id", o.fd, TRUE))]
                cl == sys_close(rd, "soc_id", o.fd)
            IN IF n <= 0 \/ n >= SocIdSize
               THEN [p |-> cl, val |-> FALSE]
               ELSE [p |-> cl, val |-> SubSeq(soc.text, 1, n - 1) = SOC_ID]

\* otp_context_open(path, readonly, ctxptr): h is the handle variable ctxptr
\* points to (0: ctxptr is NULL), mem whether calloc succeeds, dev whether
\* the nvmem device can be opened
otp_context_open(p, h, soc, mem, dev) ==
    IF h = 0
    THEN [p |-> p, ret |-> -1, errno |-> "EINVAL"]
    ELSE LET c == is_compatible(p, soc)
             free == {a \in HeapAddrs : ~c.p.heap[a].live}
             a == CHOOSE x \in free : \A y \in free : x <= y
         IN IF ~c.val
            THEN [p |-> c.p, ret |-> -1, errno |-> "EFAULT"]
            ELSE IF ~mem \/ free = {}
            THEN [p |-> c.p, ret |-> -1, errno |-> "ENOMEM"]
            ELSE LET al == [c.p EXCEPT !.heap[a] = [live |-> TRUE, fd |-> 0]]
                     o == sys_open(al, "nvmem", dev)
                 IN IF o.fd < 0
                    THEN [p |-> heap_free([o.p EXCEPT !.heap[a].fd = o.fd], a),
                          ret |-> -1, errno |-> o.errno]
                    ELSE [p |-> [o.p EXCEPT !.heap[a].fd = o.fd, !.ctx[h] = a],
                          ret |-> 0, errno |-> ""]

\* mutant: the close leaves the handle variable as it is
otp_context_close_keep(p, h) ==
    IF h = 0 \/ p.ctx[h] = 0
    THEN [p |-> p, ret |-> 0, errno |-> ""]
    ELSE LET a == p.ctx[h]
         IN [p |-> heap_free(sys_close(p, "nvmem", p.heap[a].fd), a),
             ret |-> 0, errno |-> ""]

\* otp_context_close(ctxptr): returns nothing (ret stays 0)
otp_context_close(p, h) ==
    IF h = 0 \/ p.ctx[h] = 0
    THEN [p |-> p, ret |-> 0, errno |-> ""]
    ELSE LET a == p.ctx[h]
             cl == heap_free(sys_close(p, "nvmem", p.heap[a].fd), a)
         IN [p |-> [cl EXCEPT !.ctx[h] = 0], ret |-> 0, errno |-> ""]

\* the soc_id files of the platforms: none (no soc0 device), or a SoC name
\* followed by a newline, as sysfs attributes are
SocNames == {SOC_ID, <<"i", ".", "M", "X", "8", "M", "Q">>,
             <<"i", ".", "M", "X", "8", "M", "N">>, [i \in 1 .. SocIdSize |-> "x"]}
SocIdFiles ==
    {[present |-> FALSE, text |-> <<>>]}
    \cup {[present |-> TRUE, text |-> Append(n, "\n")] : n \in SocNames}

\* the state after a call o(a) on the handles that produced r
CalledCtx(o, a, r) ==
    /\ ctx' = r.p.ctx
    /\ heap' = r.p.heap
    /\ fds' = r.p.fds
    /\ op' = o
    /\ arg' = a
    /\ fault' = NoFault
    /\ pre' = [ctx |-> ctx, heap |-> heap, fds |-> fds]
    /\ io' = r.p.io
    /\ ret' = r.ret
    /\ err' = r.errno
    /\ out' = <<>>
    /\ pc' = "returned"
    /\ UNCHANGED fuse

\* a caller runs otp_context_open(path, readonly, &ctx[h])
ContextOpen ==
    /\ pc = "idle"
    /\ \E h \in {0} \cup Handles, soc \in SocIdFiles, mem \in BOOLEAN, dev \in BOOLEAN :
          CalledCtx("context_open", [h |-> h, soc |-> soc, mem |-> mem, dev |-> dev],
                    otp_context_open(Proc, h, soc, mem, dev))

\* a caller runs otp_context_close(&ctx[h])
ContextClose ==
    /\ pc = "idle"
    /\ \E h \in {0} \cup Handles :
          CalledCtx("context_close", [h |-> h, again |-> FALSE],
                    otp_context_close(Proc, h))

\* a caller runs otp_context_close on the handle it has just closed
ContextCloseAgain ==
    /\ pc = "returned"
    /\ op = "context_close"
    /\ CalledCtx("context_close",
                 [h |-> arg.h, again |-> TRUE, released |-> io # <<>>],
                 otp_context_close(Proc, arg.h))

NextCtx == ContextOpen \/ ContextClose \/ ContextCloseAgain \/ Return

SpecCtx == Init /\ [][NextCtx]_vars

(***************************************************************************)
(* Properties of the device handle.                                        *)
(***************************************************************************)
\* the platform is not an i.MX8MM: no soc_id file, or another SoC's name
Unsupported(soc) == ~soc.present \/ soc.text # Append(SOC_ID, "\n")
IsContextOpen == pc = "returned" /\ op = "context_open"
IsContextClose == pc = "returned" /\ op = "context_close"
ClosesOf(s) == SelectSeq(s, LAMBDA r : r.op = "close" /\ r.path = "nvmem")
TouchesDevice(s) == \E k \in 1 .. Len(s) : s[k].path = "nvmem"

HashSize == SRK_FUSE_COUNT * 4
\* null_hash / the initial value of desired_srk_hash
null_hash == [i \in 1 .. SRK_FUSE_COUNT |-> ZeroWord]

\* the uint32_t words of a buffer of bytes, in host (little-endian) byte order
WordsOfBytes(buf) ==
    [i \in 1 .. (Len(buf) \div 4) |->
        UNION {Shl(ByteWord(buf[4 * (i - 1) + j + 1]), 8 * j) : j \in 0 .. 3}]

\* the block of main that loads the --fuse-file: file is [present, bytes],
\* rd whether read() succeeds.  read() returns at most HashSize bytes and
\* stores them at the start of desired_srk_hash, which was all zero.
load_fuse_file(p, file, rd) ==
    LET o == sys_open(p, "fuse_file", file.present)
        n == IF ~rd THEN -1
             ELSE IF Len(file.bytes) > HashSize THEN HashSize ELSE Len(file.bytes)
        buf == [i \in 1 .. HashSize |-> IF i <= n THEN file.bytes[i] ELSE 0]
        hash == WordsOfBytes(buf)
    IN IF o.fd < 0
       THEN [p |-> o.p, ok |-> FALSE, hash |-> null_hash, have |-> FALSE]
       ELSE LET cl == sys_close([o.p EXCEPT
                                   !.io = Append(@, SysRec("read", "fuse_file", o.fd, rd))],
                                "fuse_file", o.fd)
            IN IF n # HashSize
               THEN [p |-> cl, ok |-> FALSE, hash |-> hash, have |-> FALSE]
               ELSE [p |-> cl, ok |-> TRUE, hash |-> hash, have |-> hash # null_hash]

\* commands[]
commands == <<[cmd |-> "is-secured", rtn |-> "do_check_secure"],
              [cmd |-> "secure", rtn |-> "do_secure"],
              [cmd |-> "show", rtn |-> "do_show"]>>

RECURSIVE find_command(_, _)
\* the lookup loop of main, from index cmd: the routine, "" when none matches
find_command(cmd, name) ==
    IF cmd >= Len(commands) THEN ""
    ELSE IF commands[cmd + 1].cmd = name THEN commands[cmd + 1].rtn
    ELSE find_command(cmd + 1, name)

\* do_check_secure: 0 when SEC_CONFIG is set, 1 when it is not or the
\* boot-configuration words cannot be read
do_check_secure(d, flt) ==
    LET rd == otp_bootcfg_read(d, OTP_BOOTCFG_WORD_COUNT, flt)
        en == otp_bootcfg_bool_get(rd.words, OTP_BOOTCFG_WORD_COUNT, OTP_BOOT_CFG_SEC_CONFIG)
    IN IF rd.ret < 0 THEN [d |-> rd.d, ret |-> 1]
       ELSE [d |-> rd.d, ret |-> IF en.value[1] THEN 0 ELSE 1]

\* otp_locks_read (otp_lock.c): the read of the lock word
otp_locks_read(d, flt) == otp___fuseword_read(d, OCOTP_LOCK, flt)

\* do_secure, third block: program SEC_CONFIG unless it is already set
do_secure_bootcfg(d, flt) ==
    LET rd == otp_bootcfg_read(d, OTP_BOOTCFG_WORD_COUNT, flt)
        get == otp_bootcfg_bool_get(rd.words, OTP_BOOTCFG_WORD_COUNT, OTP_BOOT_CFG_SEC_CONFIG)
        set == otp_bootcfg_bool_set(rd.words, OTP_BOOTCFG_WORD_COUNT,
                                    OTP_BOOT_CFG_SEC_CONFIG, TRUE)
        upd == otp_bootcfg_update(rd.d, set.fusewords, OTP_BOOTCFG_WORD_COUNT, flt)
    IN IF rd.ret < 0 THEN [d |-> rd.d, ret |-> 1]
       ELSE IF get.ret < 0 THEN [d |-> rd.d, ret |-> 1]
       ELSE IF get.value[1] THEN [d |-> rd.d, ret |-> 0]
       ELSE IF set.ret < 0 THEN [d |-> rd.d, ret |-> 1]
       ELSE IF upd.ret < 0 THEN [d |-> upd.d, ret |-> 1]
       ELSE [d |-> upd.d, ret |-> 0]

\* do_secure, second block: lock the SRK fuses unless they are locked, then
\* go on to SEC_CONFIG
do_secure_lock(d, flt) ==
    LET rd == otp_locks_read(d, flt)
        get == otp_lockstate_get(rd.val, OTP_LOCK_SRK)
        set == otp_lockstate_set(OTP_LOCK_SRK, OTP_LOCKSTATE_LOCKED, rd.val)
        upd == otp_locks_update(rd.d, set.lockword, flt)
    IN IF rd.rc < 0 THEN [d |-> rd.d, ret |-> 1]
       ELSE IF get.ret < 0 THEN [d |-> rd.d, ret |-> 1]
       ELSE IF get.lockstate[1] = OTP_LOCKSTATE_LOCKED THEN do_secure_bootcfg(rd.d, flt)
       ELSE IF get.lockstate[1] = OTP_LOCKSTATE_UNLOCKED
       THEN IF set.ret < 0 THEN [d |-> rd.d, ret |-> 1]
            ELSE IF upd.rc < 0 THEN [d |-> upd.d, ret |-> 1]
            ELSE do_secure_bootcfg(upd.d, flt)
       ELSE [d |-> rd.d, ret |-> 1]

\* the for loop of do_secure: the index of the first SRK word that is
\* neither zero nor the desired one, SRK_FUSE_COUNT when there is none
RECURSIVE do_secure_scan(_, _, _)
do_secure_scan(i, srk_hash, desired) ==
    IF i < SRK_FUSE_COUNT /\ (srk_hash[i + 1] = ZeroWord \/ srk_hash[i + 1] = desired[i + 1])
    THEN do_secure_scan(i + 1, srk_hash, desired)
    ELSE i

\* mutant: the result of otp_srk_write is not looked at
do_secure_lax(d, have, desired, flt) ==
    LET rd == otp_srk_read(d, SRK_FUSE_COUNT, flt)
        wr == otp_srk_write(rd.d, desired, SRK_FUSE_COUNT, flt)
    IN IF ~have THEN [d |-> d, ret |-> 1]
       ELSE IF rd.ret < 0 THEN [d |-> rd.d, ret |-> 1]
       ELSE IF rd.hash = desired THEN do_secure_lock(rd.d, flt)
       ELSE do_secure_lock(wr.d, flt)

\* do_secure: have and desired are have_srk_hash and desired_srk_hash
do_secure(d, have, desired, flt) ==
    LET rd == otp_srk_read(d, SRK_FUSE_COUNT, flt)
        wr == otp_srk_write(rd.d, desired, SRK_FUSE_COUNT, flt)
    IN IF ~have THEN [d |-> d, ret |-> 1]
       ELSE IF rd.ret < 0 THEN [d |-> rd.d, ret |-> 1]
       ELSE IF rd.hash = desired THEN do_secure_lock(rd.d, flt)
       ELSE IF do_secure_scan(0, rd.hash, desired) < SRK_FUSE_COUNT
       THEN [d |-> rd.d, ret |-> 1]
       ELSE IF wr.ret < 0 THEN [d |-> wr.d, ret |-> 1]
       ELSE do_secure_lock(wr.d, flt)

\* the device accesses of a command, as system calls on the descriptor fd
DevSys(dio, fd) == [k \in 1 .. Len(dio) |-> SysRec(dio[k].op, "nvmem", fd, dio[k].ok)]

\* depart: otp_context_close(&ctx) and return ret; main's ctx is handle 1
main_depart(p, d, status, ld) ==
    [p |-> otp_context_close(p, 1).p, d |-> d, ret |-> status,
     hash |-> ld.hash, have |-> ld.have]

\* main: cl is the command line [opt, fuse_file, argv]; opt is "help",
\* "bad" (an unrecognized option) or "ok"; fuse_file is <<>> or <<file>>;
\* argv is what follows the options
main(p, d, cl, rd, soc, mem, dev, flt) ==
    LET none == [hash |-> null_hash, have |-> FALSE]
        ld == IF cl.fuse_file = <<>>
              THEN [p |-> p, ok |-> TRUE, hash |-> null_hash, have |-> FALSE]
              ELSE load_fuse_file(p, cl.fuse_file[1], rd)
        rtn == find_command(0, cl.argv[1])
        o == otp_context_open(ld.p, 1, soc, mem, dev)
        r == IF rtn = "do_secure" THEN do_secure(d, ld.have, ld.hash, flt)
             ELSE do_check_secure(d, flt)
    IN IF cl.opt = "help" THEN main_depart(p, d, 0, none)
       ELSE IF cl.opt = "bad" THEN main_depart(p, d, 1, none)
       ELSE IF ~ld.ok THEN main_depart(ld.p, d, 1, ld)
       ELSE IF Len(cl.argv) < 1 THEN main_depart(ld.p, d, 1, ld)
       ELSE IF rtn = "" THEN main_depart(ld.p, d, 1, ld)
       ELSE IF o.ret < 0 THEN main_depart(o.p, d, 1, ld)
       ELSE main_depart([o.p EXCEPT
                           !.io = @ \o DevSys(r.d.io, o.p.heap[o.p.ctx[1]].fd)],
                        r.d, r.ret, ld)

\* fuse files: of length 0, HashSize - MaxFileSkew .. HashSize + MaxFileSkew
\* and 2 * HashSize, holding byte i = (k * i) % 256 (all zero for k = 0)
FileLens ==
    {0, 2 * HashSize} \cup ((HashSize - MaxFileSkew) .. (HashSize + MaxFileSkew))
FileBytes(k, n) == [i \in 1 .. n |-> (k * i) % 256]
FuseFiles ==
    {[present |-> FALSE, bytes |-> <<>>]}
    \cup {[present |-> TRUE, bytes |-> FileBytes(k, n)] : k \in 0 .. MaxFileVal, n \in FileLens}
CommandLines ==
    [opt : {"ok", "help", "bad"},
     fuse_file : {<<>>} \cup {<<f>> : f \in FuseFiles},
     argv : {<<>>, <<"bogus">>, <<"is-secured">>, <<"secure">>}]
\* the platforms the tool is run on: an i.MX8MM and another SoC
MainSocs == {[present |-> TRUE, text |-> Append(n, "\n")] :
                n \in {SOC_ID, <<"i", ".", "M", "X", "8", "M", "Q">>}}
\* the device as the tool finds it: blank, or with SEC_CONFIG programmed
MainImages ==
    {BlankFuses,
     BootImage([i \in 1 .. OTP_BOOTCFG_WORD_COUNT |->
                  IF i = 1 THEN Bit(bootcfg_offset[OTP_BOOT_CFG_SEC_CONFIG]) ELSE ZeroWord])}

InitMain ==
    /\ fuse \in MainImages
    /\ NoCall
    /\ NoContext

\* the tool runs: main(argc, argv) from start to exit
Main ==
    /\ pc = "idle"
    /\ \E cl \in CommandLines, rd \in BOOLEAN, soc \in MainSocs, dev \in BOOLEAN,
          flt \in {NoFault, [at |-> 1, kind |-> "xfer"]} :
          \E r \in {main(Proc, Dev(fuse), cl, rd, soc, TRUE, dev, flt)} :
             /\ fuse' = r.d.fuse
             /\ ctx' = r.p.ctx
             /\ heap' = r.p.heap
             /\ fds' = r.p.fds
             /\ op' = "main"
             /\ arg' = [cl |-> cl, rd |-> rd, soc |-> soc, dev |-> dev]
             /\ fault' = flt
             /\ pre' = fuse
             /\ io' = r.p.io
             /\ ret' = r.ret
             /\ err' = ""
             /\ out' = [hash |-> r.hash, have |-> r.have]
             /\ pc' = "returned"

NextMain == Main \/ Return

SpecMain == InitMain /\ [][NextMain]_vars

(***************************************************************************)
(* Properties of the tool.                                                 *)
(***************************************************************************)
IsMain == pc = "returned" /\ op = "main"
\* the run was given a fuse file that exists and could be read
FileRead ==
    /\ arg.cl.opt = "ok" /\ arg.cl.fuse_file # <<>>
    /\ arg.cl.fuse_file[1].present /\ arg.rd

\* C19: the desired-hash file is accepted if and only if it is exactly 32
\* bytes long: a file of 32 bytes is loaded as its 8 words, and for every
\* shorter and every longer file the tool exits with status 1 without
\* opening the fuse device and without a desired hash.
C19_HashFileLength ==
    (IsMain /\ FileRead) =>
        LET bytes == arg.cl.fuse_file[1].bytes
        IN IF Len(bytes) = HashSize
           THEN /\ out.hash = WordsOfBytes(bytes)
                /\ out.have = (out.hash # null_hash)
           ELSE ret = 1 /\ ~TouchesDevice(io) /\ ~out.have

(***************************************************************************)
(* Lock fields do not overlap.                                             *)
(***************************************************************************)
\* the bits of the lock word that make up a lock's field
LockFieldBits(id) ==
    Shl(IF lock_is_1bit[id] THEN {0} ELSE {0, 1}, lock_offsets[id])

\* C21: for every lock a, every state valid for a and every lock word,
\* otp_lockstate_set(a, s, &word) changes no bit of the word outside a's
\* own field, and for every other lock b otp_lockstate_get(word, b)
\* returns after the call what it returned before it.
C21_LockFieldsDisjoint ==
    /\ (IsLockSet /\ ValidFor(arg.id, arg.newstate)) =>
          (ret = 0 /\ out[1] \ LockFieldBits(arg.id) = arg.lockword \ LockFieldBits(arg.id))
    /\ (pc = "returned" /\ op = "lock_get_other"
          /\ ValidFor(arg.set.id, arg.set.newstate)) =>
          (ret = 0 /\ out = otp_lockstate_get(arg.set.lockword, arg.id).lockstate)

\* C21 witness: the SRK lock (bit 9) was unlocked in a word that has the
\* neighbouring SJC_RESP lock (bit 10) set, and SJC_RESP still reads LOCKED
C21_Witness ==
    /\ pc = "returned" /\ op = "lock_get_other"
    /\ arg.set.id = OTP_LOCK_SRK /\ arg.set.newstate = OTP_LOCKSTATE_UNLOCKED
    /\ lock_offsets[OTP_LOCK_SRK] \in arg.set.lockword
    /\ lock_offsets[OTP_LOCK_SRK] \notin arg.lockword
    /\ arg.id = OTP_LOCK_SJC_RESP
    /\ out = <<OTP_LOCKSTATE_LOCKED>>

(***************************************************************************)
(* imx-otp-tool.c: the secure command.                                     *)
(***************************************************************************)
\* the most device accesses one do_secure makes: the SRK words read, read
\* again by otp_srk_write and written; the lock word read, read again by
\* otp_locks_update and written; the boot-configuration words read, read
\* again by otp_bootcfg_update, and BOOT_CFG0 written
SecureAccesses == 3 * SRK_FUSE_COUNT + 3 + 2 * OTP_BOOTCFG_WORD_COUNT + 1
SecureFaults == {NoFault} \cup [at : 1 .. SecureAccesses, kind : FaultKinds]

\* have_srk_hash and desired_srk_hash as main leaves them: no hash, or a
\* hash that is not all zero
SecureHashes ==
    {[have |-> FALSE, desired |-> null_hash]}
    \cup {[have |-> TRUE, desired |-> h] : h \in SrkHashes \ {null_hash}}

\* the device as the command first finds it: blank, with only the SRK lock
\* set, with every lock but the SRK lock set, or with SEC_CONFIG programmed
SecureImages ==
    {BlankFuses,
     [BlankFuses EXCEPT ![OCOTP_LOCK] = Bit(lock_offsets[OTP_LOCK_SRK])],
     [BlankFuses EXCEPT ![OCOTP_LOCK] = Not(Bit(lock_offsets[OTP_LOCK_SRK]))],
     [BlankFuses EXCEPT ![OCOTP_BOOT_CFG0] = Bit(bootcfg_offset[OTP_BOOT_CFG_SEC_CONFIG])]}

InitSecure ==
    /\ fuse \in SecureImages
    /\ NoCall
    /\ NoContext

\* the tool runs the secure command on the open device
DoSecure ==
    /\ pc = "idle"
    /\ \E h \in SecureHashes, flt \in SecureFaults :
          \E r \in {do_secure(Dev(fuse), h.have, h.desired, flt)} :
             Called("do_secure", h, flt, [d |-> r.d, ret |-> r.ret, errno |-> ""], <<>>)

NextSecure == DoSecure \/ Return

SpecSecure == InitSecure /\ [][NextSecure]_vars

IsSecure == pc = "returned" /\ op = "do_secure"
\* the k-th device access is a write that sets SEC_CONFIG
SecConfigWrite(k) ==
    /\ io[k].op = "write"
    /\ io[k].id = bootcfg_fuses[bootcfg_fuseword_index[OTP_BOOT_CFG_SEC_CONFIG]]
    /\ bootcfg_offset[OTP_BOOT_CFG_SEC_CONFIG] \in io[k].val
\* before the k-th access every SRK word was read equal to the desired
\* word, or written with it, successfully
SrkDoneBefore(k) ==
    \A i \in SrkIdx : \E j \in 1 .. (k - 1) :
        io[j].id = srk_fuse[i] /\ io[j].ok /\ io[j].val = arg.desired[i + 1]
\* before the k-th access the lock word was read with the SRK lock set, or
\* written with it set, successfully
SrkLockedBefore(k) ==
    \E j \in 1 .. (k - 1) :
        io[j].id = OCOTP_LOCK /\ io[j].ok /\ lock_offsets[OTP_LOCK_SRK] \in io[j].val

\* C22: whenever do_secure issues a device write that sets the SEC_CONFIG
\* bit, before that write every SRK word was read equal to the desired
\* hash or successfully written with it, and the lock word was read with
\* the SRK lock set or successfully written with it set; and when no
\* desired hash is loaded, or an SRK word is non-zero and differs from the
\* desired word, do_secure returns 1 and has issued no write at all.
C22_SecureOrdering ==
    IsSecure =>
        /\ \A k \in 1 .. Len(io) :
              SecConfigWrite(k) =>
                  /\ arg.have
                  /\ SrkDoneBefore(k)
                  /\ SrkLockedBefore(k)
                  /\ SrkOf(fuse) = arg.desired
                  /\ lock_offsets[OTP_LOCK_SRK] \in fuse[OCOTP_LOCK]
        /\ (~arg.have \/ \E i \in SrkIdx : ConflictAt(pre, arg.desired, i)) =>
              /\ ret = 1
              /\ WritesOf(io) = <<>>
              /\ fuse = pre

\* C22 witness: on a device with blank SRK fuses and the SRK lock open,
\* do_secure wrote the hash, then the lock, then SEC_CONFIG, and returned 0
C22_Witness ==
    /\ IsSecure /\ ret = 0
    /\ SrkOf(pre) = null_hash
    /\ lock_offsets[OTP_LOCK_SRK] \notin pre[OCOTP_LOCK]
    /\ \E k \in 1 .. Len(io) : SecConfigWrite(k) /\ io[k].ok
    /\ \E j \in 1 .. Len(io) : io[j].op = "write" /\ io[j].id = OCOTP_LOCK /\ io[j].ok
    /\ \E j \in 1 .. Len(io) : io[j].op = "write" /\ io[j].id = OCOTP_SRK0 /\ io[j].ok

\* C22 witness of the refusal: the SRK fuses hold another hash, and
\* do_secure returned 1 after reading them
C22_WitnessConflict ==
    /\ IsSecure /\ ret = 1 /\ arg.have
    /\ \E i \in SrkIdx : ConflictAt(pre, arg.desired, i)
    /\ Len(io) = SRK_FUSE_COUNT
====
